---- MODULE Spec2Model ----
(***************************************************************************)
(* Model of the Crystal personal-assistant message path:                   *)
(*   transport (POST /chat) -> CrystalOrchestrator.process_message         *)
(*     -> CrystalAssistant.process_message -> AIService.generate_response  *)
(*       -> local (Ollama) / remote (OpenAI) backend.                      *)
(*                                                                         *)
(* Strings are sequences of tokens.  A token stands for one literal piece  *)
(* of an f-string or for one interpolated value; the tokens in Whitespace  *)
(* are the ones str.strip() removes.  The empty Python string is <<>>.     *)
(***************************************************************************)
EXTENDS Integers, Sequences, FiniteSets, TLC

VARIABLES settings, ai, file, orch, ruby, lastOp, sched, fs, ws, tasks

vars == <<settings, ai, file, orch, ruby, lastOp, sched, fs, ws, tasks>>

(***************************************************************************)
(* Bounds of the model.                                                    *)
(***************************************************************************)
\* length of the longest conversation history a caller supplies
MaxHistory == 4

(***************************************************************************)
(* Text helpers.                                                           *)
(***************************************************************************)
Whitespace == {" ", "\n", "\n\n"}

RECURSIVE LStrip(_)
LStrip(t) == IF t # <<>> /\ Head(t) \in Whitespace THEN LStrip(Tail(t)) ELSE t

RECURSIVE RStrip(_)
RStrip(t) ==
    IF t # <<>> /\ t[Len(t)] \in Whitespace
    THEN RStrip(SubSeq(t, 1, Len(t) - 1))
    ELSE t

\* str.strip()
Strip(t) == RStrip(LStrip(t))

\* sep.join(parts)
RECURSIVE Join(_, _)
Join(parts, sep) ==
    IF parts = <<>> THEN <<>>
    ELSE IF Len(parts) = 1 THEN parts[1]
    ELSE parts[1] \o sep \o Join(Tail(parts), sep)

\* seq[-n:]
LastN(s, n) == IF Len(s) <= n THEN s ELSE SubSeq(s, Len(s) - n + 1, Len(s))

\* d.get(k, default) on a dictionary modelled as a record
Get(d, k, default) == IF k \in DOMAIN d THEN d[k] ELSE default

Contains(t, tok) == \E i \in 1..Len(t) : t[i] = tok

(***************************************************************************)
(* config/settings.py                                                      *)
(***************************************************************************)
openai_model == "gpt-3.5-turbo"
default_local_model == "llama3.1:8b"

Name == "Ruby"

RubyConfig ==
    LET RubyCapabilities ==
            << <<"schedule_management", "Manage calendars, appointments, and reminders">>,
               <<"file_organization", "Organize, search, and manage files and folders">>,
               <<"task_automation", "Create and execute automated workflows">>,
               <<"system_monitoring", "Monitor system resources and performance">>,
               <<"general_assistance", "Provide helpful information and support">> >>
    IN
    [name |-> Name,
     preferred_model |-> "gpt-4o-mini",
     fallback_model |-> "llama3.1:8b",
     instructions_file |-> "crystal/assistants/instructions/ruby_instructions.md",
     capabilities |-> RubyCapabilities]

(***************************************************************************)
(* Model identifiers.  "" is the absent hint (None and "" are both falsy   *)
(* in `if not model`).  The two string tests of the classification are     *)
(* tabulated over the identifiers of the model.                            *)
(***************************************************************************)
InSeq(x, s) == \E i \in 1..Len(s) : s[i] = x

(***************************************************************************)
(* Literal messages of ai_service.py                                       *)
(***************************************************************************)
DegradedMessage ==
    <<"I'm sorry, but I'm unable to process your request right now. Please check the AI service configuration.">>

ErrorPrefix == "I encountered an error while processing your request: "

NoContentApology == <<"I apologize, but I couldn't generate a response.">>

(***************************************************************************)
(* AIService                                                               *)
(***************************************************************************)
\* AIService.__init__
AIServiceNew ==
    [is_initialized |-> FALSE,
     openai_client |-> FALSE,
     ollama_client |-> FALSE,
     available_local_models |-> <<>>]

\* AIService.initialize.  e.ctor: outcome of constructing the OpenAI
\* client; e.list: outcome of the Ollama availability probe.
AIInitialize(svc, e) ==
    IF svc.is_initialized THEN [svc |-> svc, raised |-> FALSE]
    ELSE IF settings.openai_api_key /\ e.ctor = "raise"
    THEN [svc |-> svc, raised |-> TRUE]
    ELSE LET s1 == IF settings.openai_api_key
                   THEN [svc EXCEPT !.openai_client = TRUE]
                   ELSE svc
             s2 == IF e.list.kind = "raise"
                   THEN [s1 EXCEPT !.ollama_client = FALSE]
                   ELSE [s1 EXCEPT !.ollama_client = TRUE,
                                   !.available_local_models = e.list.models]
         IN [svc |-> [s2 EXCEPT !.is_initialized = TRUE], raised |-> FALSE]

\* AIService._is_local_model
IsLocalModel(svc, m) ==
    LET \* ':' in model
        HasColon == m \in {"llama3.1:8b", "gpt-4:ft"}
    IN
    HasColon \/ InSeq(m, svc.available_local_models)

\* AIService._is_openai_model
IsOpenAIModel(m) ==
    LET \* model.startswith('gpt-')
        StartsWithGpt == m \in {"gpt-3.5-turbo", "gpt-4o-mini", "gpt-4:ft"}
    IN
    StartsWithGpt \/ m \in {"gpt-3.5-turbo", "gpt-4"}

RECURSIVE CharLen(_)
CharLen(t) ==
    LET \* len(message) > 500 or a keyword in message.lower(); tokens carry their
        \* character count and their lower-cased keyword content in these tables
        TokenLen(tok) ==
            IF tok = "<501 characters of text>" THEN 501
            ELSE IF tok = "<500 characters of text>" THEN 500
            ELSE 1
    IN
    IF t = <<>> THEN 0 ELSE TokenLen(Head(t)) + CharLen(Tail(t))

LengthThreshold == 500

HasKeyword(t) ==
    \E i \in 1..Len(t) : t[i] \in {"analyze", "Analyze", "complex", "DETAILED"}

\* variant of SelectOptimalModel: a prompt of exactly the threshold length
\* already counts as long (>= instead of >)
SelectOptimalModel_AtThreshold(svc, message) ==
    IF (CharLen(message) >= LengthThreshold \/ HasKeyword(message)) /\ svc.openai_client
    THEN openai_model
    ELSE IF svc.available_local_models # <<>>
    THEN default_local_model
    ELSE openai_model

\* AIService._select_optimal_model
SelectOptimalModel(svc, message) ==
    IF (CharLen(message) > LengthThreshold \/ HasKeyword(message)) /\ svc.openai_client
    THEN openai_model
    ELSE IF svc.available_local_models # <<>>
    THEN default_local_model
    ELSE openai_model

\* the entries of context['conversation_history'] as the code reads them
History(context) == IF context.present THEN context.history ELSE <<>>

RECURSIVE RenderRoleLines(_)
RenderRoleLines(h) ==
    IF h = <<>> THEN <<>>
    ELSE <<Get(Head(h).d, "role", "user"), ": ", Get(Head(h).d, "content", ""), "\n">>
         \o RenderRoleLines(Tail(h))

BuildPrompt(message, context) ==
    (IF History(context) # <<>>
     THEN <<"Previous conversation:\n">>
          \o RenderRoleLines(LastN(History(context), 3)) \o <<"\n">>
     ELSE <<>>)
    \o <<"User: ">> \o message \o <<"\nAssistant:">>

NoneValue == [kind |-> "none", text |-> <<>>]
TextValue(t) == [kind |-> "text", text |-> t]

\* Python truthiness of an Optional[str]
Truthy(v) == v.kind = "text" /\ v.text # <<>>

\* AIService._generate_local_response.  e.local: outcome of
\* ollama_client.generate
GenerateLocalResponse(svc, message, model, context, e) ==
    LET \* AIService._build_prompt; raises (AttributeError) on an entry that is
        \* not a dictionary
        BuildPromptRaises ==
            \E i \in 1..Len(LastN(History(context), 3)) :
                ~LastN(History(context), 3)[i].isdict
    IN
    IF ~svc.ollama_client THEN [value |-> NoneValue, calls |-> <<>>]
    ELSE IF BuildPromptRaises THEN [value |-> NoneValue, calls |-> <<>>]
    ELSE [value |-> IF e.local.kind = "raise" THEN NoneValue ELSE e.local,
          calls |-> <<[backend |-> "local", model |-> model,
                       outcome |-> e.local,
                       request |-> BuildPrompt(message, context)]>>]

\* the message sequence of _generate_openai_response
RECURSIVE HistoryMessages(_)
HistoryMessages(h) ==
    IF h = <<>> THEN <<>>
    ELSE (IF Head(h).isdict /\ "role" \in DOMAIN Head(h).d /\ "content" \in DOMAIN Head(h).d
          THEN <<[role |-> Head(h).d.role, content |-> <<Head(h).d.content>>]>>
          ELSE <<>>)
         \o HistoryMessages(Tail(h))

BuildMessages(message, context) ==
    LET SystemMessage == [role |-> "system", content |-> <<"You are a helpful personal assistant named Ruby.">>]
    IN
    <<SystemMessage>> \o HistoryMessages(History(context))
    \o <<[role |-> "user", content |-> message]>>

\* AIService._generate_openai_response.  e.remote: outcome of
\* chat.completions.create
GenerateOpenAIResponse(svc, message, model, context, e) ==
    IF ~svc.openai_client
    THEN [raised |-> TRUE, err |-> <<"OpenAI client not initialized">>,
          value |-> <<>>, calls |-> <<>>]
    ELSE LET call == <<[backend |-> "remote", model |-> model,
                        outcome |-> e.remote,
                        request |-> BuildMessages(message, context)]>>
         IN IF e.remote.kind = "raise"
            THEN [raised |-> TRUE, err |-> e.remote.text, value |-> <<>>, calls |-> call]
            ELSE [raised |-> FALSE, err |-> <<>>,
                  value |-> IF e.remote.kind = "none" THEN NoContentApology
                            ELSE e.remote.text,
                  calls |-> call]

\* variant of RemoteResult: the except branch of generate_response answers
\* with the degraded-service message
RemoteResult_DegradedOnRaise(r, before) ==
    [value |-> IF r.raised THEN DegradedMessage ELSE r.value,
     calls |-> before \o r.calls]

\* the result of the remote path as the try/except of generate_response
\* delivers it
RemoteResult(r, before) ==
    [value |-> IF r.raised THEN <<ErrorPrefix>> \o r.err ELSE r.value,
     calls |-> before \o r.calls]

\* variant of LocalFirstBranch: the fallback re-uses the hinted identifier
LocalFirstBranch_HintedModel(svc, message, model, context, e) ==
    LET l == IF InSeq(model, svc.available_local_models)
             THEN GenerateLocalResponse(svc, message, model, context, e)
             ELSE [value |-> NoneValue, calls |-> <<>>]
    IN IF Truthy(l.value)
       THEN [value |-> l.value.text, calls |-> l.calls]
       ELSE IF settings.fallback_to_api /\ svc.openai_client
       THEN RemoteResult(
                GenerateOpenAIResponse(svc, message, model, context, e),
                l.calls)
       ELSE [value |-> DegradedMessage, calls |-> l.calls]

\* variant of LocalFirstBranch: without a remote fallback the first
\* available local model is tried after the hinted one
LocalFirstBranch_RetryLocal(svc, message, model, context, e) ==
    LET l == IF InSeq(model, svc.available_local_models)
             THEN GenerateLocalResponse(svc, message, model, context, e)
             ELSE [value |-> NoneValue, calls |-> <<>>]
        l2 == GenerateLocalResponse(svc, message, svc.available_local_models[1],
                                    context, e)
    IN IF Truthy(l.value)
       THEN [value |-> l.value.text, calls |-> l.calls]
       ELSE IF settings.fallback_to_api /\ svc.openai_client
       THEN RemoteResult(
                GenerateOpenAIResponse(svc, message, openai_model, context, e),
                l.calls)
       ELSE IF svc.available_local_models # <<>>
       THEN [value |-> IF Truthy(l2.value) THEN l2.value.text ELSE DegradedMessage,
             calls |-> l.calls \o l2.calls]
       ELSE [value |-> DegradedMessage, calls |-> l.calls]

\* lines 108-117: local first, then the downgrade to the default remote
\* model
LocalFirstBranch(svc, message, model, context, e) ==
    LET l == IF InSeq(model, svc.available_local_models)
             THEN GenerateLocalResponse(svc, message, model, context, e)
             ELSE [value |-> NoneValue, calls |-> <<>>]
    IN IF Truthy(l.value)
       THEN [value |-> l.value.text, calls |-> l.calls]
       ELSE IF settings.fallback_to_api /\ svc.openai_client
       THEN RemoteResult(
                GenerateOpenAIResponse(svc, message, openai_model, context, e),
                l.calls)
       ELSE [value |-> DegradedMessage, calls |-> l.calls]

\* lines 124-128: the first available local model as last resort
LastResortBranch(svc, message, context, e) ==
    LET l == GenerateLocalResponse(svc, message, svc.available_local_models[1],
                                   context, e)
    IN [value |-> IF Truthy(l.value) THEN l.value.text ELSE DegradedMessage,
        calls |-> l.calls]

\* variant of Dispatch: the local last resort is tried before the direct
\* remote call
Dispatch_LocalBeforeRemote(svc, message, model, context, e) ==
    IF settings.use_local_first /\ IsLocalModel(svc, model)
    THEN LocalFirstBranch(svc, message, model, context, e)
    ELSE IF svc.ollama_client /\ svc.available_local_models # <<>>
    THEN LastResortBranch(svc, message, context, e)
    ELSE IF svc.openai_client /\ IsOpenAIModel(model)
    THEN RemoteResult(GenerateOpenAIResponse(svc, message, model, context, e), <<>>)
    ELSE [value |-> DegradedMessage, calls |-> <<>>]

\* variant of Dispatch: the last resort does not test the availability list,
\* so available_local_models[0] raises IndexError on an empty list
Dispatch_NoAvailabilityTest(svc, message, model, context, e) ==
    IF settings.use_local_first /\ IsLocalModel(svc, model)
    THEN LocalFirstBranch(svc, message, model, context, e)
    ELSE IF svc.openai_client /\ IsOpenAIModel(model)
    THEN RemoteResult(GenerateOpenAIResponse(svc, message, model, context, e), <<>>)
    ELSE IF svc.ollama_client
    THEN IF svc.available_local_models = <<>>
         THEN [value |-> <<ErrorPrefix, "list index out of range">>, calls |-> <<>>]
         ELSE LastResortBranch(svc, message, context, e)
    ELSE [value |-> DegradedMessage, calls |-> <<>>]

\* lines 106-135 of generate_response: the dispatch on an initialized
\* service with a resolved model identifier
Dispatch(svc, message, model, context, e) ==
    IF settings.use_local_first /\ IsLocalModel(svc, model)
    THEN LocalFirstBranch(svc, message, model, context, e)
    ELSE IF svc.openai_client /\ IsOpenAIModel(model)
    THEN RemoteResult(GenerateOpenAIResponse(svc, message, model, context, e), <<>>)
    ELSE IF svc.ollama_client /\ svc.available_local_models # <<>>
    THEN LastResortBranch(svc, message, context, e)
    ELSE [value |-> DegradedMessage, calls |-> <<>>]

\* AIService.generate_response.  hint = "" is the absent model hint.
GenerateResponse(svc, message, hint, context, e) ==
    LET init == AIInitialize(svc, e)
    IN IF init.raised
       THEN [svc |-> init.svc, raised |-> TRUE, value |-> <<>>, calls |-> <<>>,
             model |-> hint]
       ELSE LET model == IF hint = "" THEN SelectOptimalModel(init.svc, message)
                         ELSE hint
                d == Dispatch(init.svc, message, model, context, e)
            IN [svc |-> init.svc, raised |-> FALSE, value |-> d.value,
                calls |-> d.calls, model |-> model]

(***************************************************************************)
(* CrystalAssistant (the persona; RubyAssistant is its only instance)      *)
(***************************************************************************)
\* the f-string substituted for missing instructions
Greeting == <<"I am ", Name, ", your assistant. How can I help you today?">>

PersonaApology ==
    <<"I apologize, but I encountered an error processing your request. Please try again or contact support if the problem persists.">>

Now == "<utcnow>"

\* 'personality' in line.lower() or 'traits' in line.lower(), per token
MentionsPersonality(tok) == tok \in {"## Personality Traits"}

\* self.instructions.split('\n')
RECURSIVE SplitLines(_, _)
SplitLines(t, cur) ==
    IF t = <<>> THEN <<cur>>
    ELSE IF Head(t) = "\n" THEN <<cur>> \o SplitLines(Tail(t), <<>>)
    ELSE SplitLines(Tail(t), Append(cur, Head(t)))

\* dict[key] = value on an insertion-ordered dictionary
RECURSIVE DictSet(_, _, _)
DictSet(d, k, v) ==
    IF d = <<>> THEN <<<<k, v>>>>
    ELSE IF Head(d)[1] = k THEN <<<<k, v>>>> \o Tail(d)
    ELSE <<Head(d)>> \o DictSet(Tail(d), k, v)

\* del dict[key]
RECURSIVE DictDel(_, _)
DictDel(d, k) ==
    IF d = <<>> THEN <<>>
    ELSE IF Head(d)[1] = k THEN Tail(d)
    ELSE <<Head(d)>> \o DictDel(Tail(d), k)

\* the loop of _parse_personality_from_instructions
RECURSIVE ParseLines(_, _, _)
ParseLines(lines, inSection, traits) ==
    LET \* the (key, value) a bullet line parses to (lines 128-133)
        TraitOf(tok) ==
            CASE tok = "- Friendly" -> <<"friendly", "True">>
              [] tok = "- Tone: warm" -> <<"tone", "warm">>
              [] tok = "- Ignored: later" -> <<"ignored", "later">>
              [] OTHER -> <<"", "">>
        StartsWithHash(tok) == tok \in {"# Ruby", "## Personality Traits"}
        \* line.startswith('-') / line.startswith('#') on the stripped line
        StartsWithDash(tok) == tok \in {"- Friendly", "- Tone: warm", "- Ignored: later"}
    IN
    IF lines = <<>> THEN traits
    ELSE LET line == Strip(Head(lines))
         IN IF \E i \in 1..Len(line) : MentionsPersonality(line[i])
            THEN ParseLines(Tail(lines), TRUE, traits)
            ELSE IF inSection /\ line # <<>> /\ StartsWithDash(line[1])
            THEN ParseLines(Tail(lines), inSection,
                            DictSet(traits, TraitOf(line[1])[1], TraitOf(line[1])[2]))
            ELSE IF inSection /\ line # <<>> /\ ~StartsWithHash(line[1])
            THEN traits
            ELSE ParseLines(Tail(lines), inSection, traits)

\* CrystalAssistant._parse_personality_from_instructions
ParsePersonality(instructions) == ParseLines(SplitLines(instructions, <<>>), FALSE, <<>>)

\* CrystalAssistant.__init__
\* configured: the dictionary under config["capabilities"], the config being
\* the one AssistantConfig.RUBY object; aliased: self.capabilities is that
\* same dictionary object
PersonaNew(svc) ==
    [exists |-> TRUE,
     is_active |-> FALSE,
     instructions |-> <<>>,
     capabilities |-> <<>>,
     configured |-> RubyConfig.capabilities,
     aliased |-> FALSE,
     personality_traits |-> <<>>,
     ai |-> svc]

NoPersona == [PersonaNew(AIServiceNew) EXCEPT !.exists = FALSE]

\* variant of LoadInstructions: a missing or unreadable source leaves the
\* instruction text empty
LoadInstructions_NoGreeting(f) ==
    IF RubyConfig.instructions_file = "" THEN Greeting
    ELSE IF f.state = "ok" THEN Join([i \in 1..Len(f.lines) |-> <<f.lines[i]>>], <<"\n">>)
    ELSE <<>>

\* CrystalAssistant._load_instructions: the text self.instructions holds
\* afterwards
LoadInstructions(f) ==
    IF RubyConfig.instructions_file = "" THEN Greeting
    ELSE IF f.state = "ok" THEN Join([i \in 1..Len(f.lines) |-> <<f.lines[i]>>], <<"\n">>)
    ELSE Greeting

\* CrystalAssistant._load_capabilities: line 96 binds self.capabilities to
\* the dictionary the config holds, not to a copy of it
LoadCapabilities(p) ==
    [p EXCEPT !.capabilities = p.configured,
              !.aliased = TRUE,
              !.personality_traits =
                  IF \E i \in 1..Len(p.instructions) : MentionsPersonality(p.instructions[i])
                  THEN ParsePersonality(p.instructions)
                  ELSE @]

\* CrystalAssistant.update_capability.  description "": None.  The
\* dictionary self.capabilities is changed in place, and with it the
\* config's dictionary when the two are one object.
UpdateCapability(p, capability, enabled, description) ==
    LET d == IF enabled
             THEN DictSet(p.capabilities, capability,
                          IF description = "" THEN "True" ELSE description)
             ELSE DictDel(p.capabilities, capability)
    IN [p EXCEPT !.capabilities = d,
                 !.configured = IF p.aliased THEN d ELSE @]

\* CrystalAssistant.initialize
PersonaInitialize(p, f) ==
    LoadCapabilities([p EXCEPT !.is_active = TRUE, !.instructions = LoadInstructions(f)])

RECURSIVE RenderTurns(_)
RenderTurns(h) ==
    IF h = <<>> THEN <<>>
    ELSE << <<"User: ", Get(Head(h).d, "user", "")>>,
            <<Name, ": ", Get(Head(h).d, "assistant", "")>> >>
         \o RenderTurns(Tail(h))

\* CrystalAssistant._build_context_prompt
BuildContextPrompt(p, message, context) ==
    LET \* "- {k}: {v}" lines joined by "\n"
        RenderPairs(d) ==
            Join([i \in 1..Len(d) |-> <<"- ", d[i][1], ": ", d[i][2]>>], <<"\n">>)
    IN
    Join(
        (IF p.instructions # <<>> THEN <<p.instructions>> ELSE <<>>)
        \o (IF p.capabilities # <<>>
            THEN << <<"Available capabilities:\n">> \o RenderPairs(p.capabilities) >>
            ELSE <<>>)
        \o (IF p.personality_traits # <<>>
            THEN << <<"Personality traits to embody:\n">> \o RenderPairs(p.personality_traits) >>
            ELSE <<>>)
        \o (IF History(context) # <<>>
            THEN << <<"Recent conversation context:">> >>
                 \o RenderTurns(LastN(History(context), 3))
            ELSE <<>>)
        \o << <<"---">>,
              <<"Current user message: ">> \o message,
              <<"Please respond as ", Name,
                ", following all instructions and embodying the personality traits above.">> >>,
        <<"\n\n">>)

\* CrystalAssistant._post_process_response
PostProcessResponse(response) == Strip(response)

NoEnvelope == [absent |-> TRUE]

RECURSIVE Keys(_)
Keys(d) == IF d = <<>> THEN <<>> ELSE <<Head(d)[1]>> \o Keys(Tail(d))

\* variant of PersonaProcessMessage: the prompt is built before the reload
PersonaProcessMessage_PromptBeforeReload(p, f, message, context, e) ==
    LET \* entry.get(...) of _build_context_prompt raises on an entry that is not
        \* a dictionary
        ContextPromptRaises ==
            \E i \in 1..Len(LastN(History(context), 3)) :
                ~LastN(History(context), 3)[i].isdict
        p1 == [p EXCEPT !.instructions = LoadInstructions(f)]
    IN IF ContextPromptRaises
       THEN [p |-> p1, raised |-> TRUE,
             err |-> <<"'str' object has no attribute 'get'">>,
             envelope |-> NoEnvelope, prompt |-> <<>>, delegated |-> FALSE,
             coordinatorRaised |-> FALSE, calls |-> <<>>]
       ELSE LET prompt == BuildContextPrompt(p, message, context)
                gen == GenerateResponse(p1.ai, prompt, RubyConfig.preferred_model,
                                        context, e)
            IN IF e.fault \/ gen.raised
               THEN [p |-> p1, raised |-> FALSE, err |-> <<>>,
                     envelope |->
                         [message |-> PersonaApology,
                          actions |-> <<"error_occurred">>,
                          metadata |-> [assistant |-> "ruby",
                                        error |-> <<"generate_response failed">>,
                                        processing_time |-> Now]],
                     prompt |-> prompt, delegated |-> TRUE,
                     coordinatorRaised |-> TRUE, calls |-> <<>>]
               ELSE [p |-> [p1 EXCEPT !.ai = gen.svc], raised |-> FALSE, err |-> <<>>,
                     envelope |->
                         [message |-> PostProcessResponse(gen.value),
                          actions |-> <<"message_processed">>,
                          metadata |-> [assistant |-> "ruby",
                                        instructions_version |-> CharLen(p1.instructions),
                                        capabilities_used |-> Keys(p1.capabilities),
                                        processing_time |-> Now]],
                     prompt |-> prompt, delegated |-> TRUE,
                     coordinatorRaised |-> FALSE, calls |-> gen.calls]

\* CrystalAssistant.process_message.  e.fault: the awaited
\* ai_service.generate_response call raises.
PersonaProcessMessage(p, f, message, context, e) ==
    LET \* entry.get(...) of _build_context_prompt raises on an entry that is not
        \* a dictionary
        ContextPromptRaises ==
            \E i \in 1..Len(LastN(History(context), 3)) :
                ~LastN(History(context), 3)[i].isdict
        p1 == [p EXCEPT !.instructions = LoadInstructions(f)]
    IN IF ContextPromptRaises
       THEN [p |-> p1, raised |-> TRUE,
             err |-> <<"'str' object has no attribute 'get'">>,
             envelope |-> NoEnvelope, prompt |-> <<>>, delegated |-> FALSE,
             coordinatorRaised |-> FALSE, calls |-> <<>>]
       ELSE LET prompt == BuildContextPrompt(p1, message, context)
                gen == GenerateResponse(p1.ai, prompt, RubyConfig.preferred_model,
                                        context, e)
            IN IF e.fault \/ gen.raised
               THEN [p |-> p1, raised |-> FALSE, err |-> <<>>,
                     envelope |->
                         [message |-> PersonaApology,
                          actions |-> <<"error_occurred">>,
                          metadata |-> [assistant |-> "ruby",
                                        error |-> <<"generate_response failed">>,
                                        processing_time |-> Now]],
                     prompt |-> prompt, delegated |-> TRUE,
                     coordinatorRaised |-> TRUE, calls |-> <<>>]
               ELSE [p |-> [p1 EXCEPT !.ai = gen.svc], raised |-> FALSE, err |-> <<>>,
                     envelope |->
                         [message |-> PostProcessResponse(gen.value),
                          actions |-> <<"message_processed">>,
                          metadata |-> [assistant |-> "ruby",
                                        instructions_version |-> CharLen(p1.instructions),
                                        capabilities_used |-> Keys(p1.capabilities),
                                        processing_time |-> Now]],
                     prompt |-> prompt, delegated |-> TRUE,
                     coordinatorRaised |-> FALSE, calls |-> gen.calls]

(***************************************************************************)
(* CrystalOrchestrator                                                     *)
(***************************************************************************)
\* CrystalOrchestrator.__init__
OrchestratorNew ==
    [is_initialized |-> FALSE,
     ai_service |-> [exists |-> FALSE, svc |-> AIServiceNew],
     task_scheduler |-> "None",
     file_service |-> FALSE,
     assistants |-> <<>>]

\* the keys _initialize_assistants registers
RegisteredPersonas == {"ruby"}

\* str.lower() on the persona names of the model
Lower(n) == IF n = "Ruby" THEN "ruby" ELSE n

\* the constructions and starts of a complete initialize, in program order
InitializeEffects ==
    <<"AIService()", "AIService.initialize", "TaskScheduler()",
      "TaskScheduler.start", "FileService()", "RubyAssistant()",
      "RubyAssistant.initialize">>

\* variant of OrchInitialize: the is_initialized test of lines 38-39 is
\* missing, so every call constructs and starts the services again
OrchInitialize_NoGuard(o, p, f, e) ==
    LET a == AIInitialize(AIServiceNew, e)
        o1 == [o EXCEPT !.ai_service = [exists |-> TRUE, svc |-> a.svc]]
    IN IF a.raised
       THEN [orch |-> o1, ruby |-> p, raised |-> TRUE,
             effects |-> SubSeq(InitializeEffects, 1, 2)]
       ELSE IF e.sched = "raise"
       THEN [orch |-> [o1 EXCEPT !.task_scheduler = "stopped"],
             ruby |-> p, raised |-> TRUE,
             effects |-> SubSeq(InitializeEffects, 1, 4)]
       ELSE [orch |-> [o1 EXCEPT !.task_scheduler = "running",
                                 !.file_service = TRUE,
                                 !.assistants = <<"ruby">>,
                                 !.is_initialized = TRUE],
             ruby |-> PersonaInitialize(PersonaNew(a.svc), f),
             raised |-> FALSE,
             effects |-> InitializeEffects]

\* CrystalOrchestrator.initialize (with _initialize_assistants).
\* e.sched: outcome of TaskScheduler.start.  effects: the constructor and
\* start calls the call made.
OrchInitialize(o, p, f, e) ==
    IF o.is_initialized THEN [orch |-> o, ruby |-> p, raised |-> FALSE, effects |-> <<>>]
    ELSE LET a == AIInitialize(AIServiceNew, e)
             o1 == [o EXCEPT !.ai_service = [exists |-> TRUE, svc |-> a.svc]]
         IN IF a.raised
            THEN [orch |-> o1, ruby |-> p, raised |-> TRUE,
                  effects |-> SubSeq(InitializeEffects, 1, 2)]
            ELSE IF e.sched = "raise"
            THEN [orch |-> [o1 EXCEPT !.task_scheduler = "stopped"],
                  ruby |-> p, raised |-> TRUE,
                  effects |-> SubSeq(InitializeEffects, 1, 4)]
            ELSE [orch |-> [o1 EXCEPT !.task_scheduler = "running",
                                      !.file_service = TRUE,
                                      !.assistants = <<"ruby">>,
                                      !.is_initialized = TRUE],
                  ruby |-> PersonaInitialize(PersonaNew(a.svc), f),
                  raised |-> FALSE,
                  effects |-> InitializeEffects]

\* CrystalOrchestrator.shutdown
OrchShutdown(o, p) ==
    [orch |-> [o EXCEPT !.task_scheduler = IF @ = "running" THEN "stopped" ELSE @,
                        !.is_initialized = FALSE],
     ruby |-> IF InSeq("ruby", o.assistants) THEN [p EXCEPT !.is_active = FALSE] ELSE p]

NoPersonaCall ==
    [called |-> FALSE, raised |-> FALSE, envelope |-> NoEnvelope,
     prompt |-> <<>>, delegated |-> FALSE, coordinatorRaised |-> FALSE,
     fileState |-> "n/a"]

\* CrystalOrchestrator.process_message
OrchProcessMessage(o, p, f, assistant_name, message, context, e) ==
    LET init == IF o.is_initialized
                THEN [orch |-> o, ruby |-> p, raised |-> FALSE, effects |-> <<>>]
                ELSE OrchInitialize(o, p, f, e)
        name == Lower(assistant_name)
    IN IF init.raised
       THEN [orch |-> init.orch, ruby |-> init.ruby, raised |-> TRUE,
             envelope |-> NoEnvelope, persona |-> NoPersonaCall, calls |-> <<>>]
       ELSE IF ~InSeq(name, init.orch.assistants)
       THEN [orch |-> init.orch, ruby |-> init.ruby, raised |-> FALSE,
             envelope |->
                 [message |-> <<"Assistant '", name, "' not found. Available: ">>
                              \o Join([i \in 1..Len(init.orch.assistants) |->
                                          <<init.orch.assistants[i]>>], <<", ">>),
                  assistant |-> "system",
                  error |-> TRUE],
             persona |-> NoPersonaCall, calls |-> <<>>]
       ELSE LET r == PersonaProcessMessage(init.ruby, f, message, context, e)
                call == [called |-> TRUE, raised |-> r.raised, envelope |-> r.envelope,
                         prompt |-> r.prompt, delegated |-> r.delegated,
                         coordinatorRaised |-> r.coordinatorRaised,
                         fileState |-> f.state]
            IN IF r.raised
               THEN [orch |-> init.orch, ruby |-> r.p, raised |-> FALSE,
                     envelope |->
                         [message |-> <<"Sorry, I encountered an error: ">> \o r.err,
                          assistant |-> name,
                          error |-> TRUE,
                          timestamp |-> Now],
                     persona |-> call, calls |-> r.calls]
               ELSE [orch |-> init.orch, ruby |-> r.p, raised |-> FALSE,
                     envelope |->
                         [message |-> Get(r.envelope, "message", <<>>),
                          assistant |-> name,
                          timestamp |-> Now,
                          actions_taken |-> Get(r.envelope, "actions", <<>>),
                          metadata |-> Get(r.envelope, "metadata", <<>>)],
                     persona |-> call, calls |-> r.calls]

(***************************************************************************)
(* api/routes.py                                                           *)
(***************************************************************************)
\* the fields of MessageResponse that have no default
RequiredFields == {"message", "assistant", "timestamp"}

\* MessageResponse(**response): the value of the optional `error` field
ErrorFlag(envelope) == Get(envelope, "error", FALSE)

\* chat_with_assistant: the HTTP status of the answer
ChatStatus(r) ==
    IF r.raised THEN 500
    ELSE IF ~(RequiredFields \subseteq DOMAIN r.envelope) THEN 500
    ELSE 200

(***************************************************************************)
(* TaskScheduler (services/task_scheduler.py) over the AsyncIOScheduler of *)
(* APScheduler with its in-memory job store.                               *)
(*   jobs: the jobs get_jobs() returns, as [id, trigger] in store order;   *)
(*         while the scheduler is stopped they are the pending jobs.       *)
(*   active_tasks: the insertion-ordered dictionary of the class.          *)
(***************************************************************************)
\* settings.auto_organize_downloads
auto_organize_downloads == FALSE

\* TaskScheduler.__init__
SchedulerNew == [is_running |-> FALSE, jobs |-> <<>>, active_tasks |-> <<>>]

\* key in dict
HasKey(d, k) == \E i \in 1..Len(d) : d[i][1] = k

\* dict[key], for a key that is present
Lookup(d, k) == d[CHOOSE i \in 1..Len(d) : d[i][1] = k][2]

\* the job store on add_job(..., replace_existing=True): a job with the
\* same id is updated in place, a new id is appended
RECURSIVE StoreJob(_, _)
StoreJob(jobs, job) ==
    IF jobs = <<>> THEN <<job>>
    ELSE IF Head(jobs).id = job.id THEN <<job>> \o Tail(jobs)
    ELSE <<Head(jobs)>> \o StoreJob(Tail(jobs), job)

\* scheduler.add_job(id=task_id, replace_existing=True): a stopped
\* scheduler queues the job as pending, a running one stores it
AddJob(s, job) ==
    IF s.is_running THEN [s EXCEPT !.jobs = StoreJob(@, job)]
    ELSE [s EXCEPT !.jobs = Append(@, job)]

\* the first job with this id is taken out
RECURSIVE DropJob(_, _)
DropJob(jobs, id) ==
    IF jobs = <<>> THEN <<>>
    ELSE IF Head(jobs).id = id THEN Tail(jobs)
    ELSE <<Head(jobs)>> \o DropJob(Tail(jobs), id)

\* scheduler.start(): the pending jobs are stored one after the other
RECURSIVE StorePending(_, _)
StorePending(pending, stored) ==
    IF pending = <<>> THEN stored
    ELSE StorePending(Tail(pending), StoreJob(stored, Head(pending)))

ValidCron(x) == x = "0 9 * * *"

\* variant of ScheduleCronTask: the directory keeps the entry an id already
\* has (setdefault instead of assignment)
ScheduleCronTask_KeepEntry(s, task_id, cron_expression, description) ==
    IF ~ValidCron(cron_expression) THEN [s |-> s, ok |-> FALSE]
    ELSE LET s1 == AddJob(s, [id |-> task_id,
                              trigger |-> [kind |-> "cron", params |-> cron_expression]])
         IN [s |-> [s1 EXCEPT !.active_tasks =
                       IF HasKey(@, task_id) THEN @
                       ELSE DictSet(@, task_id,
                                    [type |-> "cron", expression |-> cron_expression,
                                     description |-> description, created |-> Now])],
             ok |-> TRUE]

\* TaskScheduler.schedule_cron_task
ScheduleCronTask(s, task_id, cron_expression, description) ==
    IF ~ValidCron(cron_expression) THEN [s |-> s, ok |-> FALSE]
    ELSE LET s1 == AddJob(s, [id |-> task_id,
                              trigger |-> [kind |-> "cron", params |-> cron_expression]])
         IN [s |-> [s1 EXCEPT !.active_tasks =
                       DictSet(@, task_id,
                               [type |-> "cron", expression |-> cron_expression,
                                description |-> description, created |-> Now])],
             ok |-> TRUE]

\* TaskScheduler.schedule_interval_task
ScheduleIntervalTask(s, task_id, description, interval_kwargs) ==
    LET ValidInterval(k) == k \in {"minutes=5", "hours=1"}
    IN
    IF ~ValidInterval(interval_kwargs) THEN [s |-> s, ok |-> FALSE]
    ELSE LET s1 == AddJob(s, [id |-> task_id,
                              trigger |-> [kind |-> "interval", params |-> interval_kwargs]])
         IN [s |-> [s1 EXCEPT !.active_tasks =
                       DictSet(@, task_id,
                               [type |-> "interval", interval |-> interval_kwargs,
                                description |-> description, created |-> Now])],
             ok |-> TRUE]

\* TaskScheduler.schedule_one_time_task: run_date.isoformat() of line 215
\* is evaluated after add_job
ScheduleOneTimeTask(s, task_id, run_date, description) ==
    LET ValidRunDate(d) == d.text # "tomorrow"
    IN
    IF ~ValidRunDate(run_date) THEN [s |-> s, ok |-> FALSE]
    ELSE LET s1 == AddJob(s, [id |-> task_id,
                              trigger |-> [kind |-> "date", params |-> run_date.text]])
         IN IF ~run_date.isdatetime THEN [s |-> s1, ok |-> FALSE]
            ELSE [s |-> [s1 EXCEPT !.active_tasks =
                            DictSet(@, task_id,
                                    [type |-> "one_time", run_date |-> run_date.text,
                                     description |-> description, created |-> Now])],
                  ok |-> TRUE]

\* TaskScheduler._schedule_default_tasks
ScheduleDefaultTasks(s) ==
    LET s1 == ScheduleIntervalTask(s, "system_health_check",
                                   "System health monitoring", "minutes=5").s
    IN IF auto_organize_downloads
       THEN ScheduleIntervalTask(s1, "auto_organize_downloads",
                                 "Automatic downloads organization", "hours=1").s
       ELSE s1

\* TaskScheduler.start
SchedulerStart(s) ==
    IF s.is_running THEN s
    ELSE ScheduleDefaultTasks([s EXCEPT !.jobs = StorePending(@, <<>>),
                                        !.is_running = TRUE])

\* TaskScheduler.cancel_task: scheduler.remove_job raises JobLookupError
\* for an id it does not hold
CancelTask(s, task_id) ==
    LET HasJob(jobs, id) == \E i \in 1..Len(jobs) : jobs[i].id = id
    IN
    IF ~HasJob(s.jobs, task_id) THEN [s |-> s, ok |-> FALSE]
    ELSE [s |-> [s EXCEPT !.jobs = DropJob(@, task_id),
                          !.active_tasks = DictDel(@, task_id)],
          ok |-> TRUE]

\* the scheduler runs a one-time job: its trigger has no further fire
\* time, so the scheduler removes the job
FireJob(s, task_id) == [s EXCEPT !.jobs = DropJob(@, task_id)]

\* TaskScheduler.shutdown: scheduler.shutdown(wait=True) empties the
\* in-memory job store
SchedulerShutdown(s) ==
    IF s.is_running THEN [s EXCEPT !.jobs = <<>>, !.is_running = FALSE] ELSE s

\* TaskScheduler.get_scheduled_tasks
GetScheduledTasks(s) ==
    [active_tasks |-> s.active_tasks, scheduler_running |-> s.is_running,
     jobs_count |-> Len(s.jobs)]

(***************************************************************************)
(* FileService (services/file_service.py).                                 *)
(* A path is a sequence of components and a component a sequence of text   *)
(* tokens, the last one being the suffix (".txt") when the name has one.   *)
(*   fs.dirs:  the directories that exist                                  *)
(*   fs.files: the regular files, as [dir, name, content]                  *)
(*   fs.stamp: the second the clock of datetime.now() shows                *)
(***************************************************************************)
\* settings.allowed_directories
AllowedDirectories ==
    {<< <<"home">>, <<"Documents">> >>, << <<"home">>, <<"Downloads">> >>,
     << <<"home">>, <<"Desktop">> >>}

Inbox == << <<"home">>, <<"Documents">>, <<"inbox">> >>
Outside == << <<"tmp">>, <<"work">> >>
\* a symbolic link inside an allowed root that points to Outside
LinkOut == << <<"home">>, <<"Documents">>, <<"link">> >>

\* Path.resolve()
Resolve(path) == IF path = LinkOut THEN Outside ELSE path

\* Path.is_relative_to(other)
IsRelativeTo(path, other) ==
    Len(other) <= Len(path) /\ SubSeq(path, 1, Len(other)) = other

\* variant of IsDirectoryAllowed: the allow_file_operations switch of lines
\* 272-273 is not consulted
IsDirectoryAllowed_SwitchIgnored(f, directory) ==
    \E allowed \in AllowedDirectories : IsRelativeTo(Resolve(directory), allowed)

\* FileService._is_directory_allowed
IsDirectoryAllowed(f, directory) ==
    IF ~f.settings.allow_file_operations THEN FALSE
    ELSE \E allowed \in AllowedDirectories : IsRelativeTo(Resolve(directory), allowed)

\* Path.parent and Path.name
Parent(path) == SubSeq(path, 1, Len(path) - 1)
Base(path) == path[Len(path)]

FilePath(x) == Append(x.dir, x.name)

\* Path.is_file(), Path.is_dir(), Path.exists(); a link is followed
IsFile(f, path) == \E x \in f.files : FilePath(x) = Resolve(path)
IsDir(f, path) == Resolve(path) \in f.dirs
Exists(f, path) == IsFile(f, path) \/ IsDir(f, path)

\* the file at a path that is a file
FileAt(f, path) == CHOOSE x \in f.files : FilePath(x) = Resolve(path)

Suffix(name) ==
    LET \* Path.suffix and Path.stem
        Suffixes == {".txt", ".pdf", ".jpg"}
    IN
    IF name[Len(name)] \in Suffixes THEN name[Len(name)] ELSE ""

\* FileService._get_file_category over self.file_categories (lines 36-45)
GetFileCategory(name) ==
    IF Suffix(name) \in {".pdf", ".txt"} THEN "documents"
    ELSE IF Suffix(name) \in {".jpg"} THEN "images"
    ELSE "other"

\* the loop of lines 113-118: each round suffixes the name of the round
\* before
RECURSIVE FreshPath(_, _, _)
FreshPath(f, target, counter) ==
    LET WithCounter(name, n) ==
            LET \* f"{stem}_{counter}{suffix}"
                CounterToken == IF n = 1 THEN "_1" ELSE IF n = 2 THEN "_2" ELSE "_3+"
                Stem == IF Suffix(name) = "" THEN name ELSE SubSeq(name, 1, Len(name) - 1)
            IN
            Append(Stem, CounterToken)
            \o (IF Suffix(name) = "" THEN <<>> ELSE <<Suffix(name)>>)
    IN
    IF ~Exists(f, target) THEN target
    ELSE FreshPath(f, Append(Parent(target), WithCounter(Base(target), counter)),
                   counter + 1)

\* variant of AreFilesIdentical: the digests of lines 304-307 are not compared
AreFilesIdentical_NoDigest(f, file1, file2) ==
    IsFile(f, file1) /\ IsFile(f, file2)

\* FileService._are_files_identical: equal size and equal SHA-256 digest
AreFilesIdentical(f, file1, file2) ==
    IsFile(f, file1) /\ IsFile(f, file2)
    /\ FileAt(f, file1).content = FileAt(f, file2).content

\* f"{directory.name}_backup_{stamp}" next to the directory
BackupStamps == <<"20300101_090000", "20300101_090001", "20300101_090002">>

BackupDir(directory, stamp) ==
    Append(Parent(directory), Base(directory) \o <<"_backup_", BackupStamps[stamp]>>)

\* shutil.copytree(directory, backup_dir): every directory and file below
\* the directory is copied below backup_dir
CopyTree(f, directory, backup_dir) ==
    [f EXCEPT
        !.dirs = @ \cup {backup_dir \o SubSeq(d, Len(directory) + 1, Len(d)) :
                            d \in {x \in f.dirs : IsRelativeTo(x, directory)}},
        !.files = @ \cup {[x EXCEPT !.dir = backup_dir
                                        \o SubSeq(x.dir, Len(directory) + 1, Len(x.dir))] :
                             x \in {y \in f.files : IsRelativeTo(y.dir, directory)}}]

\* one filesystem write, as the properties observe it
Write(kind, path) == [kind |-> kind, path |-> path]

\* lines 90-124: one round of the loop over dir_path.iterdir()
ProcessFile(st, dir_path, name, create_subdirs) ==
    LET \* shutil.move(src, dst) of a regular file to a path that does not exist
        Move(f, src, dst) ==
            [f EXCEPT !.files = (@ \ {FileAt(f, src)})
                                \cup {[dir |-> Parent(dst), name |-> Base(dst),
                                       content |-> FileAt(f, src).content]}]
        \* Path.unlink()
        Unlink(f, path) == [f EXCEPT !.files = @ \ {FileAt(f, path)}]
        \* f"{category}_{file_path.name}"
        WithCategory(category, name_) == <<category, "_">> \o name_
        f == st.fs
        file_path == Append(dir_path, name)
        category == GetFileCategory(name)
        target_dir == Append(dir_path, <<category>>)
    IN IF ~IsFile(f, file_path) THEN st
       ELSE IF create_subdirs /\ IsFile(f, target_dir)
       THEN [st EXCEPT !.errors = Append(@, <<"Error processing ", name, ": File exists">>)]
       ELSE
         LET made == create_subdirs /\ ~IsDir(f, target_dir)
             f1 == IF made THEN [f EXCEPT !.dirs = @ \cup {target_dir}] ELSE f
             w1 == IF made THEN <<Write("mkdir", target_dir)>> ELSE <<>>
             target_path == IF create_subdirs THEN Append(target_dir, name)
                            ELSE Append(dir_path, WithCategory(category, name))
         IN IF ~Exists(f1, target_path)
            THEN [st EXCEPT !.fs = Move(f1, file_path, target_path),
                            !.organized_files = Append(@, <<category, "moved", target_path>>),
                            !.writes = @ \o w1 \o <<Write("move", target_path)>>]
            ELSE IF ~f.settings.duplicate_check_enabled
            THEN [st EXCEPT !.fs = f1, !.writes = @ \o w1]
            ELSE IF AreFilesIdentical(f1, file_path, target_path)
            THEN [st EXCEPT !.fs = Unlink(f1, file_path),
                            !.organized_files =
                                Append(@, <<category, "Removed duplicate: ", name>>),
                            !.writes = @ \o w1 \o <<Write("unlink", file_path)>>]
            ELSE LET fresh == FreshPath(f1, target_path, 1)
                 IN [st EXCEPT !.fs = Move(f1, file_path, fresh),
                               !.organized_files = Append(@, <<category, "moved", fresh>>),
                               !.writes = @ \o w1 \o <<Write("move", fresh)>>]

RECURSIVE ProcessFiles(_, _, _, _)
ProcessFiles(st, dir_path, names, create_subdirs) ==
    IF names = <<>> THEN st
    ELSE ProcessFiles(ProcessFile(st, dir_path, Head(names), create_subdirs),
                      dir_path, Tail(names), create_subdirs)

Failure(text) == [success |-> FALSE, error |-> text]

\* FileService.organize_directory.  names: the order of iterdir();
\* stamp: the second datetime.now() shows.
OrganizeDirectory(f, directory_path, create_subdirs, names, stamp) ==
    LET \* the state of one organize_directory run: the filesystem, the
        \* organized_files lists (as (category, text) in order), errors and writes
        RunState(f_) == [fs |-> f_, organized_files |-> <<>>, errors |-> <<>>, writes |-> <<>>]
    IN
    IF ~IsDirectoryAllowed(f, directory_path)
    THEN [fs |-> f, writes |-> <<>>, raised |-> FALSE,
          result |-> Failure(<<"Directory ", directory_path,
                               " is not in the allowed directories list">>)]
    ELSE IF ~IsDir(f, directory_path)
    THEN [fs |-> f, writes |-> <<>>, raised |-> FALSE,
          result |-> Failure(<<"Directory ", directory_path,
                               " does not exist or is not a directory">>)]
    ELSE IF f.settings.backup_before_organize
            /\ Exists(f, BackupDir(directory_path, stamp))
    THEN [fs |-> f, writes |-> <<>>, raised |-> FALSE,
          result |-> [success |-> FALSE, error |-> <<"File exists">>, timestamp |-> Now]]
    ELSE LET f1 == IF f.settings.backup_before_organize
                   THEN CopyTree(f, directory_path, BackupDir(directory_path, stamp))
                   ELSE f
             w1 == IF f.settings.backup_before_organize
                   THEN <<Write("copytree", BackupDir(directory_path, stamp))>>
                   ELSE <<>>
             st == ProcessFiles([RunState(f1) EXCEPT !.writes = w1],
                                directory_path, names, create_subdirs)
         IN [fs |-> st.fs, writes |-> st.writes, raised |-> FALSE,
             result |-> [success |-> TRUE,
                         organized_files |-> st.organized_files,
                         total_files |-> Len(st.organized_files),
                         errors |-> st.errors,
                         timestamp |-> Now]]

\* the files dir_path.rglob('*') yields; nothing for a path that is not a
\* directory
RGlob(f, dir_path) ==
    IF ~IsDir(f, dir_path) THEN {}
    ELSE {x \in f.files : IsRelativeTo(x.dir, Resolve(dir_path))}

\* FileService.find_duplicates: the groups of files with one digest
FindDuplicates(f, directory_path) ==
    IF ~IsDirectoryAllowed(f, directory_path)
    THEN [fs |-> f, writes |-> <<>>, raised |-> FALSE,
          result |-> Failure(<<"Directory not allowed">>)]
    ELSE IF ~Exists(f, directory_path)
    THEN [fs |-> f, writes |-> <<>>, raised |-> FALSE,
          result |-> Failure(<<"Directory does not exist">>)]
    ELSE LET found == RGlob(f, directory_path)
             groups == {g \in {{FilePath(x) : x \in {y \in found : y.content = c}} :
                                  c \in {z.content : z \in found}} :
                           Cardinality(g) > 1}
         IN [fs |-> f, writes |-> <<>>, raised |-> FALSE,
             result |-> [success |-> TRUE,
                         duplicate_groups |-> Cardinality(groups),
                         duplicates |-> groups,
                         timestamp |-> Now]]

\* FileService._is_text_file
IsTextFile(name) == Suffix(name) = ".txt"

\* FileService.search_files
SearchFiles(f, directory_path, pattern, include_content) ==
    LET \* pattern.lower() in file_path.name.lower() / in content.lower(), tabulated
        \* over the patterns of the model
        NameMatches(pattern_, name) == \E i \in 1..Len(name) : name[i] = pattern_
    IN
    IF ~IsDirectoryAllowed(f, directory_path)
    THEN [fs |-> f, writes |-> <<>>, raised |-> FALSE,
          result |-> Failure(<<"Directory not allowed">>)]
    ELSE LET byName == {x \in RGlob(f, directory_path) : NameMatches(pattern, x.name)}
             byContent == {x \in RGlob(f, directory_path) \ byName :
                              include_content /\ IsTextFile(x.name)
                              /\ x.content = pattern}
         IN [fs |-> f, writes |-> <<>>, raised |-> FALSE,
             result |-> [success |-> TRUE,
                         matches |-> {[path |-> FilePath(x), match_type |-> "filename"] :
                                         x \in byName}
                                     \cup {[path |-> FilePath(x), match_type |-> "content"] :
                                              x \in byContent},
                         count |-> Cardinality(byName) + Cardinality(byContent),
                         pattern |-> pattern,
                         timestamp |-> Now]]

\* FileService.__init__ over a filesystem that holds nothing yet
NoFileSystem ==
    [settings |-> [allow_file_operations |-> TRUE, duplicate_check_enabled |-> TRUE,
                   backup_before_organize |-> TRUE],
     dirs |-> {}, files |-> {}, stamp |-> 1, runs |-> 0]

(***************************************************************************)
(* Inputs and environment outcomes.                                        *)
(***************************************************************************)

TurnEntry(i) ==
    [isdict |-> TRUE,
     d |-> [user |-> IF i = 1 THEN "ask1" ELSE IF i = 2 THEN "ask2"
                     ELSE IF i = 3 THEN "ask3" ELSE IF i = 4 THEN "ask4"
                     ELSE "ask5+",
            assistant |-> "reply"]]

RawEntry == [isdict |-> FALSE, d |-> [raw |-> "not a dictionary"]]

NoContext == [present |-> FALSE, history |-> <<>>]

\* the outcomes of a step that consumes none
QuietEnv ==
    [ctor |-> "ok", list |-> [kind |-> "ok", models |-> <<>>], sched |-> "ok",
     local |-> TextValue(<<"local answer">>),
     remote |-> TextValue(<<" ", "remote answer", "\n">>),
     fault |-> FALSE]

\* outcomes an initialization can consume
InitEnvs ==
    LET ListOutcomes ==
            {[kind |-> "raise", models |-> <<>>],
             [kind |-> "ok", models |-> <<>>],
             [kind |-> "ok", models |-> <<"mistral">>],
             [kind |-> "ok", models |-> <<default_local_model, "mistral">>]}
    IN
    {[QuietEnv EXCEPT !.ctor = c, !.list = l, !.sched = s] :
        c \in {"ok", "raise"}, l \in ListOutcomes, s \in {"ok", "raise"}}

\* the probe outcomes the message path distinguishes: no client, no model,
\* some model
OrchInitEnvs == {i \in InitEnvs : i.list.models # <<"mistral">>}

\* outcomes a generation can consume
\* (a faulting generate_response call reaches no backend)
CallEnvs ==
    LET Raise(t) == [kind |-> "raise", text |-> t]
        RemoteOutcomes ==
            {Raise(<<"connection refused">>), NoneValue, TextValue(<<>>),
             TextValue(<<" ", "remote answer", "\n">>)}
        LocalOutcomes ==
            {Raise(<<"connection refused">>), TextValue(<<>>), TextValue(<<" ">>),
             TextValue(<<"local answer">>)}
    IN
    {[QuietEnv EXCEPT !.local = l, !.remote = r] :
        l \in LocalOutcomes, r \in RemoteOutcomes}
    \cup {[QuietEnv EXCEPT !.fault = TRUE]}

Merge(i, x) == [i EXCEPT !.local = x.local, !.remote = x.remote, !.fault = x.fault]

\* an outcome that no call consumed is left at its QuietEnv value, so that
\* every step is enumerated once
ServiceInitConsumes(svc, i) ==
    /\ (svc.is_initialized \/ ~settings.openai_api_key) => i.ctor = QuietEnv.ctor
    /\ (svc.is_initialized \/ AIInitialize(svc, i).raised) => i.list = QuietEnv.list

OrchInitConsumes(o, i) ==
    /\ ServiceInitConsumes(IF o.is_initialized THEN [AIServiceNew EXCEPT !.is_initialized = TRUE]
                           ELSE AIServiceNew, i)
    /\ (o.is_initialized \/ AIInitialize(AIServiceNew, i).raised) => i.sched = QuietEnv.sched

CallConsumes(x, calls, delegated) ==
    /\ (\A k \in 1..Len(calls) : calls[k].backend # "local") => x.local = QuietEnv.local
    /\ (\A k \in 1..Len(calls) : calls[k].backend # "remote") => x.remote = QuietEnv.remote
    /\ ~delegated => x.fault = QuietEnv.fault

Files ==
    LET \* Instruction files of the model, one token per line.
        InstructionsWithTraits ==
            <<"# Ruby", "You are Ruby.", "## Personality Traits", "- Friendly",
              "- Tone: warm", "Always be concise.", "- Ignored: later">>
    IN
    {[state |-> "missing", lines |-> <<>>],
     [state |-> "unreadable", lines |-> <<>>],
     [state |-> "ok", lines |-> InstructionsWithTraits]}

NoOp ==
    LET NoGen == [called |-> FALSE, raised |-> FALSE, value |-> <<>>, model |-> "", hint |-> ""]
    IN
    [op |-> "none", name |-> "", message |-> <<>>, context |-> NoContext,
     wasInitialized |-> FALSE, raised |-> FALSE, status |-> 0,
     envelope |-> NoEnvelope, persona |-> NoPersonaCall, gen |-> NoGen,
     calls |-> <<>>, effects |-> <<>>,
     task_id |-> "", trigger |-> [kind |-> "", params |-> ""], ok |-> FALSE,
     before |-> <<>>, result |-> [absent |-> TRUE], directory |-> <<>>,
     create_subdirs |-> FALSE]

SettingsSpace ==
    [use_local_first : BOOLEAN, fallback_to_api : BOOLEAN, openai_api_key : BOOLEAN]

(***************************************************************************)
(* The WebSocket endpoint (main.py) and WebSocketManager (api/websocket.py)*)
(*   serving: the lifespan start-up has completed                          *)
(*   pc:      "idle" no handler; "receive" the handler awaits a frame;     *)
(*            "failed" an exception other than WebSocketDisconnect left    *)
(*            the handler, which closes the connection                     *)
(*   inbox:   frames sent by the client and not yet received               *)
(*   sent, answered: frames the client sent / envelopes it was sent on     *)
(*            this connection; wellformed: every frame sent so far was an  *)
(*            {assistant, message} object                                  *)
(***************************************************************************)
\* WebSocketManager.__init__, before any connection
NoConnection ==
    [serving |-> FALSE, connected |-> FALSE, pc |-> "idle", inbox |-> <<>>,
     sent |-> 0, answered |-> 0, wellformed |-> TRUE, active_connections |-> 0,
     reply |-> NoEnvelope]

\* WebSocketManager.connect
WsAccept(w) ==
    [w EXCEPT !.connected = TRUE, !.pc = "receive", !.inbox = <<>>, !.sent = 0,
              !.answered = 0, !.wellformed = TRUE, !.reply = NoEnvelope,
              !.active_connections = @ + 1]

\* WebSocketManager.disconnect
WsRemove(w) ==
    [w EXCEPT !.connected = FALSE, !.pc = "idle", !.inbox = <<>>,
              !.active_connections = IF @ > 0 THEN @ - 1 ELSE @]

\* websocket_endpoint, lines 80-93: one round of the loop for the frame at
\* the head of the inbox.  A frame that is not a JSON object makes
\* receive_json or data.get raise.
WsIteration(w, o, p, f, frame, e) ==
    IF ~frame.isobject
    THEN [ws |-> [w EXCEPT !.inbox = Tail(@), !.pc = "failed", !.connected = FALSE],
          orch |-> o, ruby |-> p, calls |-> <<>>, delegated |-> FALSE]
    ELSE IF Get(frame.d, "message", <<>>) = <<>>
    THEN [ws |-> [w EXCEPT !.inbox = Tail(@)],
          orch |-> o, ruby |-> p, calls |-> <<>>, delegated |-> FALSE]
    ELSE LET \* lines 92-93: send_personal_message(response), unless
             \* process_message raised
             Sent(r) ==
                 IF r.raised
                 THEN [ws |-> [w EXCEPT !.inbox = Tail(@), !.pc = "failed",
                                        !.connected = FALSE],
                       orch |-> r.orch, ruby |-> r.ruby, calls |-> r.calls,
                       delegated |-> r.persona.delegated]
                 ELSE [ws |-> [w EXCEPT !.inbox = Tail(@), !.answered = @ + 1,
                                        !.reply = r.envelope],
                       orch |-> r.orch, ruby |-> r.ruby, calls |-> r.calls,
                       delegated |-> r.persona.delegated]
         IN CHOOSE out \in
                {Sent(r) : r \in {OrchProcessMessage(o, p, f,
                                      Get(frame.d, "assistant", "ruby"),
                                      Get(frame.d, "message", <<>>), NoContext, e)}} :
                TRUE

(***************************************************************************)
(* Concurrent coroutines on one event loop.  A coroutine runs without      *)
(* interruption up to the next await of an external call (a backend        *)
(* request, the Ollama availability probe); awaiting a coroutine method    *)
(* that makes no such call (_load_instructions, _build_context_prompt,     *)
(* TaskScheduler.start) does not yield to the loop.                        *)
(*   co[c].pc:  "idle", "awaiting" (suspended in the external call),       *)
(*              "done" (returned)                                          *)
(*   co[c].read, prompt, pending, envelope: what process_message read,     *)
(*              built, will return and returned                            *)
(***************************************************************************)
Coroutines == {1, 2}

IdleCoroutine ==
    [pc |-> "idle", read |-> <<>>, prompt |-> <<>>, pending |-> NoEnvelope,
     envelope |-> NoEnvelope]

\* no call in progress and no service constructed.  services and
\* schedulers hold every AIService and TaskScheduler object constructed so
\* far; ai_service and task_scheduler are the positions of the objects the
\* orchestrator's attributes refer to (0: None); init[c] is the frame of an
\* initialize call, with the AIService object it awaits.
NoTasks ==
    [co |-> [c \in Coroutines |-> IdleCoroutine],
     init |-> [c \in Coroutines |-> [pc |-> "idle", svc |-> 0]],
     services |-> <<>>, schedulers |-> <<>>,
     ai_service |-> 0, task_scheduler |-> 0, calls |-> 0]

\* CrystalAssistant.process_message, lines 165-176: the envelope built after
\* the await of generate_response returned; it reads self.instructions and
\* self.capabilities as they are then
ProcessMessageResume(p, pending) ==
    IF "instructions_version" \in DOMAIN pending.metadata
    THEN [pending EXCEPT !.metadata.instructions_version = CharLen(p.instructions),
                         !.metadata.capabilities_used = Keys(p.capabilities)]
    ELSE pending

(***************************************************************************)
(* The message path: orchestrator life cycle and POST /chat.               *)
(***************************************************************************)
\* the flags of the selection strategy keep their defaults of settings.py
Init ==
    /\ settings \in {c \in SettingsSpace : c.use_local_first /\ c.fallback_to_api}
    /\ ai = AIServiceNew
    /\ file \in Files
    /\ orch = OrchestratorNew
    /\ ruby = NoPersona
    /\ lastOp = NoOp
    /\ sched = SchedulerNew
    /\ fs = NoFileSystem
    /\ ws = NoConnection
    /\ tasks = NoTasks

\* lifespan startup / cli get_orchestrator: await orchestrator.initialize()
Initialize ==
    \E i \in OrchInitEnvs :
        \E r \in {OrchInitialize(orch, ruby, file, i)} :
           /\ lastOp = NoOp
           /\ OrchInitConsumes(orch, i)
           /\ orch' = r.orch
           /\ ruby' = r.ruby
           /\ lastOp' = [NoOp EXCEPT !.op = "initialize",
                                     !.wasInitialized = orch.is_initialized,
                                     !.raised = r.raised,
                                     !.effects = r.effects]
           /\ UNCHANGED <<settings, ai, file, sched, fs, ws, tasks>>

\* lifespan shutdown: await orchestrator.shutdown()
Shutdown ==
    \E r \in {OrchShutdown(orch, ruby)} :
       /\ lastOp = NoOp
       /\ orch' = r.orch
       /\ ruby' = r.ruby
       /\ lastOp' = [NoOp EXCEPT !.op = "shutdown",
                                 !.wasInitialized = orch.is_initialized]
       /\ UNCHANGED <<settings, ai, file, sched, fs, ws, tasks>>

\* POST /chat: chat_with_assistant
Chat ==
    LET \* the conversation contexts of a chat request
        ChatContexts ==
            {NoContext,
             [present |-> TRUE, history |-> [i \in 1..MaxHistory |-> TurnEntry(i)]],
             [present |-> TRUE, history |-> <<RawEntry>>]}
        Messages == {<<>>, <<"hi">>}
        AssistantNames == {"ruby", "Ruby", "emerald"}
    IN
    \E n \in AssistantNames, m \in Messages, c \in ChatContexts, i \in OrchInitEnvs :
        /\ lastOp = NoOp
        /\ OrchInitConsumes(orch, i)
        /\ \E x \in (IF ~orch.is_initialized /\ OrchInitialize(orch, ruby, file, i).raised
                     THEN {QuietEnv} ELSE CallEnvs) :
            \E r \in {OrchProcessMessage(orch, ruby, file, n, m, c, Merge(i, x))} :
               /\ CallConsumes(x, r.calls, r.persona.delegated)
               /\ orch' = r.orch
               /\ ruby' = r.ruby
               /\ lastOp' = [NoOp EXCEPT !.op = "chat", !.name = n, !.message = m,
                                         !.context = c,
                                         !.wasInitialized = orch.is_initialized,
                                         !.raised = r.raised,
                                         !.status = ChatStatus(r),
                                         !.envelope = r.envelope,
                                         !.persona = r.persona,
                                         !.calls = r.calls]
               /\ UNCHANGED <<settings, ai, file, sched, fs, ws, tasks>>

\* the instruction file is edited, removed or made unreadable
EditInstructions ==
    /\ lastOp = NoOp
    /\ \E f \in Files : f # file /\ file' = f
    /\ lastOp' = [NoOp EXCEPT !.op = "edit"]
    /\ UNCHANGED <<settings, ai, orch, ruby, sched, fs, ws, tasks>>

\* the caller takes the result of the last operation
Respond ==
    /\ lastOp # NoOp
    /\ lastOp' = NoOp
    /\ UNCHANGED <<settings, ai, file, orch, ruby, sched, fs, ws, tasks>>

Next == Initialize \/ Shutdown \/ Chat \/ EditInstructions \/ Respond

Spec == Init /\ [][Next]_vars

(***************************************************************************)
(* The Coordinator on its own: one AIService instance called directly.     *)
(***************************************************************************)
InitAI ==
    /\ settings \in SettingsSpace
    /\ ai = AIServiceNew
    /\ file = [state |-> "missing", lines |-> <<>>]
    /\ orch = OrchestratorNew
    /\ ruby = NoPersona
    /\ lastOp = NoOp
    /\ sched = SchedulerNew
    /\ fs = NoFileSystem
    /\ ws = NoConnection
    /\ tasks = NoTasks

\* await ai_service.initialize()
ServiceInitialize ==
    \E i \in InitEnvs :
        \E r \in {AIInitialize(ai, i)} :
           /\ lastOp = NoOp
           /\ i.sched = QuietEnv.sched
           /\ ServiceInitConsumes(ai, i)
           /\ ai' = r.svc
           /\ lastOp' = [NoOp EXCEPT !.op = "service_initialize",
                                     !.wasInitialized = ai.is_initialized,
                                     !.raised = r.raised]
           /\ UNCHANGED <<settings, file, orch, ruby, sched, fs, ws, tasks>>

\* await ai_service.generate_response(message, model, context)
Generate ==
    LET Contexts ==
            LET RoleEntry(i) ==
                    [isdict |-> TRUE,
                     d |-> [role |-> IF i % 2 = 1 THEN "user" ELSE "assistant",
                            content |-> IF i = 1 THEN "turn1" ELSE IF i = 2 THEN "turn2"
                                        ELSE IF i = 3 THEN "turn3" ELSE IF i = 4 THEN "turn4"
                                        ELSE "turn5+"]]
            IN
            {NoContext,
             [present |-> TRUE, history |-> [i \in 1..MaxHistory |-> RoleEntry(i)]],
             [present |-> TRUE, history |-> [i \in 1..MaxHistory |-> TurnEntry(i)]],
             [present |-> TRUE, history |-> <<RawEntry>>]}
        Hints == {"", "llama3.1:8b", "mistral", "gpt-4o-mini", "gpt-4:ft", "claude"}
        Prompts ==
            {<<>>, <<"hi">>, <<"Please ", "Analyze", " this">>,
             <<"<500 characters of text>">>, <<"<501 characters of text>">>}
    IN
    \E m \in Prompts, h \in Hints, c \in Contexts, i \in InitEnvs :
        /\ lastOp = NoOp
        /\ i.sched = QuietEnv.sched
        /\ ServiceInitConsumes(ai, i)
        /\ \E x \in (IF AIInitialize(ai, i).raised THEN {QuietEnv} ELSE CallEnvs) :
            \E r \in {GenerateResponse(ai, m, h, c, Merge(i, x))} :
               /\ CallConsumes(x, r.calls, TRUE)
               /\ x.fault = QuietEnv.fault
               /\ ai' = r.svc
               /\ lastOp' = [NoOp EXCEPT !.op = "generate", !.message = m,
                                         !.context = c,
                                         !.wasInitialized = ai.is_initialized,
                                         !.raised = r.raised,
                                         !.gen = [called |-> TRUE, raised |-> r.raised,
                                                  value |-> r.value, model |-> r.model,
                                                  hint |-> h],
                                         !.calls = r.calls]
               /\ UNCHANGED <<settings, file, orch, ruby, sched, fs, ws, tasks>>

\* the service is discarded and a new AIService() constructed
ServiceNew ==
    /\ lastOp = NoOp
    /\ ai.is_initialized
    /\ ai' = AIServiceNew
    /\ lastOp' = [NoOp EXCEPT !.op = "service_new"]
    /\ UNCHANGED <<settings, file, orch, ruby, sched, fs, ws, tasks>>

NextAI == ServiceInitialize \/ Generate \/ ServiceNew \/ Respond

SpecAI == InitAI /\ [][NextAI]_vars

(***************************************************************************)
(* The Task Scheduler on its own: one TaskScheduler instance.              *)
(***************************************************************************)
\* the most jobs the scheduler is given to hold
MaxJobs == 3

TaskIds == {"X", "system_health_check"}

InitSched ==
    /\ settings = [use_local_first |-> TRUE, fallback_to_api |-> TRUE,
                   openai_api_key |-> FALSE]
    /\ ai = AIServiceNew
    /\ file = [state |-> "missing", lines |-> <<>>]
    /\ orch = OrchestratorNew
    /\ ruby = NoPersona
    /\ lastOp = NoOp
    /\ sched = SchedulerNew
    /\ fs = NoFileSystem
    /\ ws = NoConnection
    /\ tasks = NoTasks

\* await task_scheduler.start()
SchedStart ==
    /\ sched' = SchedulerStart(sched)
    /\ lastOp' = [NoOp EXCEPT !.op = "start", !.before = sched.active_tasks,
                              !.wasInitialized = sched.is_running]
    /\ UNCHANGED <<settings, ai, file, orch, ruby, fs, ws, tasks>>

\* await task_scheduler.schedule_cron_task(task_id, func, cron_expression)
ScheduleCron ==
    LET \* the triggers of the model.  valid: the trigger constructor accepts the
        \* parameters; isdatetime: run_date has the isoformat() method.
        CronExpressions == {"0 9 * * *", "every morning"}
    IN
    \E id \in TaskIds, x \in CronExpressions :
        \E r \in {ScheduleCronTask(sched, id, x, "")} :
           /\ Len(sched.jobs) < MaxJobs
           /\ sched' = r.s
           /\ lastOp' = [NoOp EXCEPT !.op = "schedule_cron_task", !.task_id = id,
                                     !.trigger = [kind |-> "cron", params |-> x],
                                     !.ok = r.ok, !.before = sched.active_tasks,
                                     !.wasInitialized = sched.is_running]
           /\ UNCHANGED <<settings, ai, file, orch, ruby, fs, ws, tasks>>

\* await task_scheduler.schedule_interval_task(task_id, func, **kwargs)
ScheduleInterval ==
    LET IntervalKwargs == {"minutes=5", "hours=1", "fortnights=2"}
    IN
    \E id \in TaskIds, k \in IntervalKwargs :
        \E r \in {ScheduleIntervalTask(sched, id, "", k)} :
           /\ Len(sched.jobs) < MaxJobs
           /\ sched' = r.s
           /\ lastOp' = [NoOp EXCEPT !.op = "schedule_interval_task", !.task_id = id,
                                     !.trigger = [kind |-> "interval", params |-> k],
                                     !.ok = r.ok, !.before = sched.active_tasks,
                                     !.wasInitialized = sched.is_running]
           /\ UNCHANGED <<settings, ai, file, orch, ruby, fs, ws, tasks>>

\* await task_scheduler.schedule_one_time_task(task_id, func, run_date)
ScheduleOneTime ==
    LET RunDates ==
            {[isdatetime |-> TRUE, text |-> "2030-01-01T09:00:00"],
             [isdatetime |-> FALSE, text |-> "2030-01-01 09:00:00"],
             [isdatetime |-> FALSE, text |-> "tomorrow"]}
    IN
    \E id \in TaskIds, d \in RunDates :
        \E r \in {ScheduleOneTimeTask(sched, id, d, "")} :
           /\ Len(sched.jobs) < MaxJobs
           /\ sched' = r.s
           /\ lastOp' = [NoOp EXCEPT !.op = "schedule_one_time_task", !.task_id = id,
                                     !.trigger = [kind |-> "one_time", params |-> d.text],
                                     !.ok = r.ok, !.before = sched.active_tasks,
                                     !.wasInitialized = sched.is_running]
           /\ UNCHANGED <<settings, ai, file, orch, ruby, fs, ws, tasks>>

\* the run date of a stored one-time job arrives
Fire ==
    \E i \in 1..Len(sched.jobs) :
        /\ sched.is_running
        /\ sched.jobs[i].trigger.kind = "date"
        /\ sched' = FireJob(sched, sched.jobs[i].id)
        /\ lastOp' = [NoOp EXCEPT !.op = "fire", !.task_id = sched.jobs[i].id,
                                  !.before = sched.active_tasks,
                                  !.wasInitialized = sched.is_running]
        /\ UNCHANGED <<settings, ai, file, orch, ruby, fs, ws, tasks>>

\* await task_scheduler.cancel_task(task_id)
Cancel ==
    \E id \in TaskIds :
        \E r \in {CancelTask(sched, id)} :
           /\ sched' = r.s
           /\ lastOp' = [NoOp EXCEPT !.op = "cancel_task", !.task_id = id,
                                     !.ok = r.ok, !.before = sched.active_tasks,
                                     !.wasInitialized = sched.is_running]
           /\ UNCHANGED <<settings, ai, file, orch, ruby, fs, ws, tasks>>

\* await task_scheduler.shutdown()
SchedShutdown ==
    /\ sched' = SchedulerShutdown(sched)
    /\ lastOp' = [NoOp EXCEPT !.op = "scheduler_shutdown",
                              !.before = sched.active_tasks,
                              !.wasInitialized = sched.is_running]
    /\ UNCHANGED <<settings, ai, file, orch, ruby, fs, ws, tasks>>

NextSched ==
    \/ SchedStart \/ ScheduleCron \/ ScheduleInterval \/ ScheduleOneTime
    \/ Fire \/ Cancel \/ SchedShutdown

SpecSched == InitSched /\ [][NextSched]_vars

(***************************************************************************)
(* The File Organizer on its own: one FileService over a small filesystem. *)
(***************************************************************************)
\* the most organize_directory runs that reach the filesystem
MaxRuns == 2

FileA == <<"a", ".txt">>

Directories ==
    LET \* a path inside an allowed root that is a regular file when a.txt exists
        FileArg == Append(Inbox, FileA)
        Missing == << <<"home">>, <<"Documents">>, <<"gone">> >>
    IN
    {Inbox, Outside, LinkOut, Missing, FileArg}

InitFS ==
    LET FileSystems ==
            LET BaseDirs ==
                    {<< <<"home">> >>, << <<"home">>, <<"Documents">> >>, Inbox,
                     << <<"tmp">> >>, Outside}
                OutsideFiles ==
                    {[dir |-> Outside, name |-> <<"x", ".txt">>, content |-> "c1"],
                     [dir |-> Outside, name |-> <<"y", ".txt">>, content |-> "c1"]}
                \* the files a directory may hold at the start: a.txt and b.txt in the
                \* inbox, and an a.txt already filed under inbox/documents
                InboxFiles ==
                    LET FileB == <<"b", ".txt">>
                        Contents == {"c1", "c2"}
                    IN
                    {[dir |-> Inbox, name |-> FileA, content |-> c] : c \in Contents}
                    \cup {[dir |-> Inbox, name |-> FileB, content |-> c] : c \in Contents}
                    \cup {[dir |-> Append(Inbox, <<"documents">>), name |-> FileA, content |-> c] :
                             c \in Contents}
                FileSettings ==
                    [allow_file_operations : BOOLEAN, duplicate_check_enabled : BOOLEAN,
                     backup_before_organize : BOOLEAN]
            IN
            {[settings |-> c, dirs |-> BaseDirs \cup {x.dir : x \in held},
              files |-> held \cup OutsideFiles, stamp |-> 1, runs |-> 0] :
                c \in FileSettings,
                held \in {h \in SUBSET InboxFiles :
                             \A x, y \in h : FilePath(x) = FilePath(y) => x = y}}
    IN
    /\ settings = [use_local_first |-> TRUE, fallback_to_api |-> TRUE,
                   openai_api_key |-> FALSE]
    /\ ai = AIServiceNew
    /\ file = [state |-> "missing", lines |-> <<>>]
    /\ orch = OrchestratorNew
    /\ ruby = NoPersona
    /\ lastOp = NoOp
    /\ sched = SchedulerNew
    /\ fs \in FileSystems
    /\ ws = NoConnection
    /\ tasks = NoTasks

\* await file_service.organize_directory(directory_path, create_subdirs)
Organize ==
    LET \* the orders in which iterdir() can yield a set of names
        Orders(names) ==
            {o \in UNION {[1..n -> names] : n \in {Cardinality(names)}} :
                \A i, j \in 1..Cardinality(names) : o[i] = o[j] => i = j}
        \* the names dir_path.iterdir() yields, in the order the caller gives
        Listed(f, dir_path) == {x.name : x \in {y \in f.files : y.dir = Resolve(dir_path)}}
        \* the first of the allowed roots itself
        Root == << <<"home">>, <<"Documents">> >>
    IN
    /\ fs.runs < MaxRuns
    /\ \E d \in Directories \cup {Root}, sub \in BOOLEAN,
          stamp \in {k \in {fs.stamp, fs.stamp + 1} : k <= Len(BackupStamps)} :
        \* the first run is at the first second; the clock moves between runs
        /\ fs.runs = 0 => stamp = fs.stamp
        /\ (~IsDirectoryAllowed(fs, d) \/ ~IsDir(fs, d)
              \/ ~fs.settings.backup_before_organize) => stamp = fs.stamp
        /\ \E names \in Orders(Listed(fs, d)) :
            \E r \in {OrganizeDirectory(fs, d, sub, names, stamp)} :
               /\ fs' = [r.fs EXCEPT !.stamp = stamp,
                                     !.runs = IF r.result.success \/ r.writes # <<>>
                                              THEN @ + 1 ELSE @]
               /\ lastOp' = [NoOp EXCEPT !.op = "organize_directory",
                                         !.directory = d, !.create_subdirs = sub,
                                         !.raised = r.raised, !.result = r.result,
                                         !.effects = r.writes, !.before = fs]
               /\ UNCHANGED <<settings, ai, file, orch, ruby, sched, ws, tasks>>

\* await file_service.find_duplicates(directory_path)
Duplicates ==
    \E d \in Directories :
        \E r \in {FindDuplicates(fs, d)} :
           /\ fs' = r.fs
           /\ lastOp' = [NoOp EXCEPT !.op = "find_duplicates", !.directory = d,
                                     !.raised = r.raised, !.result = r.result,
                                     !.effects = r.writes, !.before = fs]
           /\ UNCHANGED <<settings, ai, file, orch, ruby, sched, ws, tasks>>

\* await file_service.search_files(directory_path, pattern, include_content)
Search ==
    LET Patterns == {"a", "c1"}
    IN
    \E d \in Directories, pattern \in Patterns, include_content \in BOOLEAN :
        \E r \in {SearchFiles(fs, d, pattern, include_content)} :
           /\ fs' = r.fs
           /\ lastOp' = [NoOp EXCEPT !.op = "search_files", !.directory = d,
                                     !.raised = r.raised, !.result = r.result,
                                     !.effects = r.writes, !.before = fs]
           /\ UNCHANGED <<settings, ai, file, orch, ruby, sched, ws, tasks>>

NextFS == Organize \/ Duplicates \/ Search

SpecFS == InitFS /\ [][NextFS]_vars

(***************************************************************************)
(* The WebSocket endpoint: the served application and one client.          *)
(***************************************************************************)
\* the most frames a client sends on one connection
MaxFrames == 2

\* the most entries the connection list of the manager is let to reach
MaxConnections == 2

InitWS ==
    /\ settings \in {c \in SettingsSpace : c.use_local_first /\ c.fallback_to_api}
    /\ ai = AIServiceNew
    /\ file \in Files
    /\ orch = OrchestratorNew
    /\ ruby = NoPersona
    /\ lastOp = NoOp
    /\ sched = SchedulerNew
    /\ fs = NoFileSystem
    /\ ws = NoConnection
    /\ tasks = NoTasks

\* lifespan start-up (main.py lines 38-41); the application serves only
\* when initialize() returned
Lifespan ==
    \E i \in OrchInitEnvs :
        \E r \in {OrchInitialize(orch, ruby, file, i)} :
           /\ ~ws.serving
           /\ ~orch.is_initialized
           /\ OrchInitConsumes(orch, i)
           /\ orch' = r.orch
           /\ ruby' = r.ruby
           /\ ws' = [ws EXCEPT !.serving = ~r.raised]
           /\ UNCHANGED <<settings, ai, file, lastOp, sched, fs, tasks>>

\* a client opens /ws: websocket_manager.connect
WsConnect ==
    /\ ws.serving /\ ~ws.connected
    /\ ws.active_connections < MaxConnections
    /\ ws' = WsAccept(ws)
    /\ UNCHANGED <<settings, ai, file, orch, ruby, lastOp, sched, fs, tasks>>

\* the client sends a frame
WsSend ==
    LET WsFrames ==
            {[isobject |-> TRUE, d |-> [assistant |-> "ruby", message |-> <<"hi">>]],
             [isobject |-> TRUE, d |-> [assistant |-> "ruby", message |-> <<>>]],
             [isobject |-> TRUE, d |-> [message |-> <<"hi">>]],
             [isobject |-> TRUE, d |-> [assistant |-> "emerald", message |-> <<"hi">>]],
             [isobject |-> FALSE, d |-> [raw |-> "not json"]]}
    IN
    \E frame \in WsFrames :
        /\ ws.connected /\ ws.sent < MaxFrames
        /\ ws' = [ws EXCEPT !.inbox = Append(@, frame), !.sent = @ + 1,
                            !.wellformed = @ /\ frame.isobject]
        /\ UNCHANGED <<settings, ai, file, orch, ruby, lastOp, sched, fs, tasks>>

\* the handler receives the next frame and runs one round of its loop
WsHandle ==
    /\ ws.connected /\ ws.pc = "receive" /\ ws.inbox # <<>>
    /\ \E x \in CallEnvs :
        \E r \in {WsIteration(ws, orch, ruby, file, Head(ws.inbox), Merge(QuietEnv, x))} :
           /\ CallConsumes(x, r.calls, r.delegated)
           /\ ws' = r.ws
           /\ orch' = r.orch
           /\ ruby' = r.ruby
           /\ UNCHANGED <<settings, ai, file, lastOp, sched, fs, tasks>>

\* the client closes the connection after its frames were read:
\* receive_json raises WebSocketDisconnect (lines 95-96)
WsDisconnect ==
    /\ ws.connected /\ ws.pc = "receive" /\ ws.inbox = <<>>
    /\ ws' = WsRemove(ws)
    /\ UNCHANGED <<settings, ai, file, orch, ruby, lastOp, sched, fs, tasks>>

NextWS == Lifespan \/ WsConnect \/ WsSend \/ WsHandle \/ WsDisconnect

SpecWS == InitWS /\ [][NextWS]_vars

(***************************************************************************)
(* Two process_message calls on one initialized persona, interleaved at    *)
(* the await of the backend call, while the instruction file changes.      *)
(***************************************************************************)
InitRace ==
    /\ settings \in {c \in SettingsSpace : c.use_local_first /\ c.fallback_to_api}
    /\ ai = AIServiceNew
    /\ file \in Files
    /\ orch = OrchestratorNew
    /\ \E i \in OrchInitEnvs :
          /\ i.ctor = "ok" /\ i.list.kind = "ok" /\ i.sched = "ok"
          /\ ruby = PersonaInitialize(PersonaNew(AIInitialize(AIServiceNew, i).svc), file)
    /\ lastOp = NoOp
    /\ sched = SchedulerNew
    /\ fs = NoFileSystem
    /\ ws = NoConnection
    /\ tasks = NoTasks

\* process_message up to its first suspension: the reload (line 155), the
\* prompt (line 158) and the call of generate_response (line 162), which
\* suspends when it makes a backend request and returns at once otherwise
ProcessBegin(c) ==
    /\ tasks.co[c].pc = "idle"
    /\ \E m \in {<<"hi">>, <<"Please ", "Analyze", " this">>}, x \in CallEnvs :
        \E r \in {PersonaProcessMessage(ruby, file, m, NoContext, Merge(QuietEnv, x))} :
           /\ ~x.fault
           /\ CallConsumes(x, r.calls, FALSE)
           /\ ruby' = r.p
           /\ tasks' = [tasks EXCEPT !.co[c] =
                  [pc |-> IF r.calls = <<>> THEN "done" ELSE "awaiting",
                   read |-> LoadInstructions(file),
                   prompt |-> r.prompt,
                   pending |-> r.envelope,
                   envelope |-> IF r.calls = <<>> THEN r.envelope ELSE NoEnvelope]]
           /\ UNCHANGED <<settings, ai, file, orch, lastOp, sched, fs, ws>>

\* the backend answers and process_message runs to its return
ProcessResume(c) ==
    /\ tasks.co[c].pc = "awaiting"
    /\ tasks' = [tasks EXCEPT !.co[c].pc = "done",
                              !.co[c].envelope =
                                  ProcessMessageResume(ruby, tasks.co[c].pending)]
    /\ UNCHANGED <<settings, ai, file, orch, ruby, lastOp, sched, fs, ws>>

\* the caller takes the envelope
ProcessReturn(c) ==
    /\ tasks.co[c].pc = "done"
    /\ tasks' = [tasks EXCEPT !.co[c] = IdleCoroutine]
    /\ UNCHANGED <<settings, ai, file, orch, ruby, lastOp, sched, fs, ws>>

\* the instruction file is edited, removed or made unreadable
RaceEdit ==
    /\ \E f \in Files : f # file /\ file' = f
    /\ UNCHANGED <<settings, ai, orch, ruby, lastOp, sched, fs, ws, tasks>>

NextRace ==
    \/ \E c \in Coroutines : ProcessBegin(c) \/ ProcessResume(c) \/ ProcessReturn(c)
    \/ RaceEdit

SpecRace == InitRace /\ [][NextRace]_vars

(***************************************************************************)
(* The capability map of one persona: update_capability and                *)
(* reload_configuration, while the instruction file changes.               *)
(***************************************************************************)
InitCaps ==
    /\ settings = [use_local_first |-> TRUE, fallback_to_api |-> TRUE,
                   openai_api_key |-> FALSE]
    /\ ai = AIServiceNew
    /\ file \in Files
    /\ orch = OrchestratorNew
    /\ ruby = PersonaNew(AIServiceNew)
    /\ lastOp = NoOp
    /\ sched = SchedulerNew
    /\ fs = NoFileSystem
    /\ ws = NoConnection
    /\ tasks = NoTasks

\* await ruby.update_capability(capability, enabled, description)
CapUpdate ==
    \E capability \in {"file_organization", "web_search"}, enabled \in BOOLEAN,
       description \in {"", "Search the web"} :
        /\ ruby' = UpdateCapability(ruby, capability, enabled, description)
        /\ lastOp' = [NoOp EXCEPT !.op = "update_capability", !.name = capability,
                                  !.ok = enabled]
        /\ UNCHANGED <<settings, ai, file, orch, sched, fs, ws, tasks>>

\* await ruby.reload_configuration()
CapReload ==
    LET \* CrystalAssistant.reload_configuration
        ReloadConfiguration(p, f) ==
            LoadCapabilities([p EXCEPT !.instructions = LoadInstructions(f)])
    IN
    /\ ruby' = ReloadConfiguration(ruby, file)
    /\ lastOp' = [NoOp EXCEPT !.op = "reload_configuration"]
    /\ UNCHANGED <<settings, ai, file, orch, sched, fs, ws, tasks>>

NextCaps == CapUpdate \/ CapReload \/ RaceEdit

SpecCaps == InitCaps /\ [][NextCaps]_vars

(***************************************************************************)
(* Two tasks calling CrystalOrchestrator.initialize on one orchestrator,   *)
(* interleaved at the await of the Ollama availability probe.              *)
(***************************************************************************)
\* the most initialize calls made
MaxInits == 3

InitStartup ==
    /\ settings = [use_local_first |-> TRUE, fallback_to_api |-> TRUE,
                   openai_api_key |-> FALSE]
    /\ ai = AIServiceNew
    /\ file \in Files
    /\ orch = OrchestratorNew
    /\ ruby = NoPersona
    /\ lastOp = NoOp
    /\ sched = SchedulerNew
    /\ fs = NoFileSystem
    /\ ws = NoConnection
    /\ tasks = NoTasks

\* initialize up to its first suspension: the test of lines 38-39, the
\* AIService of line 45 and the call of its initialize (line 46), which
\* suspends in ollama_client.list() (ai_service.py line 58)
InitializeBegin(c) ==
    /\ tasks.init[c].pc = "idle"
    /\ tasks.calls < MaxInits
    /\ IF orch.is_initialized
       THEN /\ tasks' = [tasks EXCEPT !.calls = @ + 1]
            /\ orch' = orch
       ELSE /\ tasks' = [tasks EXCEPT
                            !.calls = @ + 1,
                            !.services = Append(@, AIServiceNew),
                            !.ai_service = Len(tasks.services) + 1,
                            !.init[c] = [pc |-> "awaiting",
                                         svc |-> Len(tasks.services) + 1]]
            /\ orch' = [orch EXCEPT !.ai_service = [exists |-> TRUE, svc |-> AIServiceNew]]
    /\ lastOp' = [NoOp EXCEPT !.op = "initialize", !.wasInitialized = orch.is_initialized]
    /\ UNCHANGED <<settings, ai, file, ruby, sched, fs, ws>>

\* initialize from the return of the probe to its end: the rest of
\* AIService.initialize on the object the call awaits, then lines 48-56 on
\* the objects the orchestrator's attributes refer to by then
InitializeResume(c) ==
    /\ tasks.init[c].pc = "awaiting"
    /\ \E e \in {i \in OrchInitEnvs : i.ctor = "ok"} :
        \E services \in {[tasks.services EXCEPT
                             ![tasks.init[c].svc] = AIInitialize(@, e).svc]} :
           /\ tasks' = [tasks EXCEPT
                           !.services = services,
                           !.schedulers = Append(@, IF e.sched = "raise" THEN "stopped"
                                                    ELSE "running"),
                           !.task_scheduler = Len(tasks.schedulers) + 1,
                           !.init[c] = [pc |-> "idle", svc |-> 0]]
           /\ orch' = IF e.sched = "raise"
                      THEN [orch EXCEPT !.ai_service.svc = services[tasks.ai_service],
                                        !.task_scheduler = "stopped"]
                      ELSE [orch EXCEPT !.ai_service.svc = services[tasks.ai_service],
                                        !.task_scheduler = "running",
                                        !.file_service = TRUE,
                                        !.assistants = <<"ruby">>,
                                        !.is_initialized = TRUE]
           /\ ruby' = IF e.sched = "raise" THEN ruby
                      ELSE PersonaInitialize(PersonaNew(services[tasks.ai_service]), file)
           /\ lastOp' = [NoOp EXCEPT !.op = "initialize", !.raised = e.sched = "raise",
                                     !.wasInitialized = orch.is_initialized]
    /\ UNCHANGED <<settings, ai, file, sched, fs, ws>>

NextStartup == \E c \in Coroutines : InitializeBegin(c) \/ InitializeResume(c)

SpecStartup == InitStartup /\ [][NextStartup]_vars

(***************************************************************************)
(* Properties of AIService.generate_response (checked under SpecAI).       *)
(***************************************************************************)
Generated == lastOp.op = "generate"

Returned == Generated /\ ~lastOp.raised

LocalInvoked == \E k \in 1..Len(lastOp.calls) : lastOp.calls[k].backend = "local"

RemoteInvoked == \E k \in 1..Len(lastOp.calls) : lastOp.calls[k].backend = "remote"

LocalSucceeded ==
    \E k \in 1..Len(lastOp.calls) :
        lastOp.calls[k].backend = "local" /\ Truthy(lastOp.calls[k].outcome)

\* C1: for every prompt, hint, context and backend behaviour,
\* generate_response returns a non-empty string and does not raise (stated
\* for a service that is already initialized, as the orchestrator hands it
\* to the persona).
C1_NonEmptyAndNeverRaises ==
    (Generated /\ lastOp.wasInitialized)
        => (~lastOp.raised /\ lastOp.gen.value # <<>>)

\* C2 (as stated): with use_local_first = false and a remote-classified
\* identifier the local backend is never invoked, whatever the rest of the
\* configuration.
C2_NeverLocalForRemoteIdentifier ==
    (Returned /\ ~settings.use_local_first /\ IsOpenAIModel(lastOp.gen.model))
        => ~LocalInvoked

\* C2 (amended): with use_local_first = false, a remote-classified
\* identifier and a remote client configured, the local backend is never
\* invoked.
C2_NeverLocalWhenRemoteConfigured ==
    (Returned /\ ~settings.use_local_first /\ IsOpenAIModel(lastOp.gen.model)
        /\ ai.openai_client)
        => ~LocalInvoked

C2_Witness ==
    /\ Returned /\ ~settings.use_local_first /\ IsOpenAIModel(lastOp.gen.model)
    /\ ai.openai_client /\ ai.ollama_client /\ ai.available_local_models # <<>>
    /\ RemoteInvoked

\* what generate_response returns for the outcome of a remote call
RemoteDelivers(outcome) ==
    IF outcome.kind = "text" THEN outcome.text
    ELSE IF outcome.kind = "none" THEN NoContentApology
    ELSE <<ErrorPrefix>> \o outcome.text

\* C3: local first, local-classified identifier, failing local backend,
\* fallback enabled and remote configured: the result is what the remote
\* backend delivers, requested once with the default remote identifier.
C3_FallbackUsesDefaultRemoteModel ==
    (Returned /\ settings.use_local_first /\ IsLocalModel(ai, lastOp.gen.model)
        /\ ~LocalSucceeded /\ settings.fallback_to_api /\ ai.openai_client)
        => /\ lastOp.calls # <<>>
           /\ LET rc == lastOp.calls[Len(lastOp.calls)]
              IN /\ rc.backend = "remote"
                 /\ rc.model = openai_model
                 /\ lastOp.gen.value = RemoteDelivers(rc.outcome)
           /\ Cardinality({k \in 1..Len(lastOp.calls) :
                              lastOp.calls[k].backend = "remote"}) = 1

C3_Witness ==
    /\ Returned /\ settings.use_local_first /\ settings.fallback_to_api
    /\ lastOp.gen.hint = default_local_model
    /\ Len(lastOp.calls) = 2
    /\ lastOp.calls[1].backend = "local" /\ lastOp.calls[1].outcome.kind = "raise"
    /\ lastOp.calls[2].backend = "remote" /\ lastOp.calls[2].model = openai_model
    /\ lastOp.calls[2].outcome.kind = "text" /\ lastOp.calls[2].outcome.text # <<>>
    /\ lastOp.gen.value = lastOp.calls[2].outcome.text

\* C4: with neither a local backend (no client or no available model) nor a
\* remote backend configured, the result is exactly the degraded-service
\* message.
C4_DegradedWhenNoBackend ==
    (Returned /\ ~ai.openai_client
        /\ (~ai.ollama_client \/ ai.available_local_models = <<>>))
        => (lastOp.gen.value = DegradedMessage /\ lastOp.calls = <<>>)

C4_Witness ==
    /\ Returned /\ ~ai.openai_client /\ ai.ollama_client
    /\ ai.available_local_models = <<>>
    /\ lastOp.gen.hint = "gpt-4o-mini"
    /\ lastOp.message # <<>>
    /\ lastOp.gen.value = DegradedMessage

\* C18: the degraded-service message is produced only when every path
\* has been exhausted: with a local model known available, generate_response
\* has attempted the local backend before it answers with the degraded
\* message.
C18_LocalTriedBeforeDegraded ==
    (Returned /\ lastOp.gen.value = DegradedMessage
        /\ ai.ollama_client /\ ai.available_local_models # <<>>)
        => LocalInvoked

Raised(k) == lastOp.calls[k].outcome.kind = "raise"

\* what generate_response returns when it takes the result of call k
Delivered(k) ==
    IF lastOp.calls[k].backend = "remote" THEN RemoteDelivers(lastOp.calls[k].outcome)
    ELSE lastOp.calls[k].outcome.text

\* C19 (as stated): when a backend call raises, the result is the output
\* of the other backend or the degraded-service message, for the local and
\* for the remote backend alike.
C19_UnreachableYieldsFallbackOrDegraded ==
    Generated =>
        \A k \in 1..Len(lastOp.calls) :
            Raised(k)
                => /\ ~lastOp.raised
                   /\ \/ lastOp.gen.value = DegradedMessage
                      \/ \E j \in 1..Len(lastOp.calls) :
                            /\ lastOp.calls[j].backend # lastOp.calls[k].backend
                            /\ ~Raised(j)
                            /\ lastOp.gen.value = Delivered(j)

\* C19 (amended): when a backend call raises, nothing leaves
\* generate_response; a raising remote call yields the error text (the
\* fixed prefix followed by the exception text); a raising local call with
\* no raising remote call yields what the remote fallback delivers, or the
\* degraded-service message when no remote call is made.
C19_UnreachableIsCaught ==
    Generated =>
        \A k \in 1..Len(lastOp.calls) :
            Raised(k)
                => /\ ~lastOp.raised
                   /\ lastOp.calls[k].backend = "remote"
                          => lastOp.gen.value = <<ErrorPrefix>> \o lastOp.calls[k].outcome.text
                   /\ (lastOp.calls[k].backend = "local" /\ ~RemoteInvoked)
                          => lastOp.gen.value = DegradedMessage
                   /\ (lastOp.calls[k].backend = "local" /\ RemoteInvoked)
                          => /\ k < Len(lastOp.calls)
                             /\ lastOp.calls[Len(lastOp.calls)].backend = "remote"
                             /\ lastOp.gen.value = Delivered(Len(lastOp.calls))

C19_Witness ==
    /\ Returned /\ Len(lastOp.calls) = 2
    /\ lastOp.calls[1].backend = "local" /\ Raised(1)
    /\ lastOp.calls[2].backend = "remote" /\ Raised(2)
    /\ lastOp.gen.value = <<ErrorPrefix, "connection refused">>

\* the words of the claim, lower-cased token by token
KeywordsOfClaim == {"analyze", "complex", "detailed"}

LowerWord(tok) ==
    IF tok = "Analyze" THEN "analyze"
    ELSE IF tok = "DETAILED" THEN "detailed"
    ELSE tok

PromptCallsForRemote(t) ==
    \/ CharLen(t) > 500
    \/ \E i \in 1..Len(t) : LowerWord(t[i]) \in KeywordsOfClaim

\* C20: without a model hint the identifier is the default remote one when
\* the prompt is longer than 500 characters or holds one of the keywords
\* (case-insensitively) and a remote backend is configured; otherwise the
\* default local one when a local model is known available; otherwise the
\* default remote one.
C20_SelectedModel ==
    (Returned /\ lastOp.gen.hint = "")
        => lastOp.gen.model =
              (IF PromptCallsForRemote(lastOp.message) /\ ai.openai_client
               THEN "gpt-3.5-turbo"
               ELSE IF ai.available_local_models # <<>>
               THEN "llama3.1:8b"
               ELSE "gpt-3.5-turbo")

C20_Witness ==
    /\ Returned /\ lastOp.gen.hint = ""
    /\ CharLen(lastOp.message) = 500
    /\ ai.openai_client /\ ai.available_local_models # <<>>
    /\ lastOp.gen.model = default_local_model

\* C21: one generate_response call invokes the local backend at most
\* once and the remote backend at most once, and no local invocation
\* follows a remote one.
C21_NoRetry ==
    Generated =>
        /\ Cardinality({k \in 1..Len(lastOp.calls) : lastOp.calls[k].backend = "local"}) <= 1
        /\ Cardinality({k \in 1..Len(lastOp.calls) : lastOp.calls[k].backend = "remote"}) <= 1
        /\ \A j, k \in 1..Len(lastOp.calls) :
              (j < k /\ lastOp.calls[j].backend = "remote")
                  => lastOp.calls[k].backend # "local"

C21_Witness ==
    /\ Returned /\ Len(lastOp.calls) = 2
    /\ lastOp.calls[1].backend = "local" /\ ~Truthy(lastOp.calls[1].outcome)
    /\ lastOp.calls[2].backend = "remote"
    /\ lastOp.calls[2].model = openai_model

\* the content of history entry i occurs in the request of backend call k
EntryInRequest(i, k) ==
    LET entry == History(lastOp.context)[i]
        request == lastOp.calls[k].request
    IN /\ entry.isdict /\ "content" \in DOMAIN entry.d
       /\ IF lastOp.calls[k].backend = "local"
          THEN Contains(request, entry.d.content)
          ELSE \E n \in 1..Len(request) : request[n].content = <<entry.d.content>>

\* C22: with a history of more than three entries, a request built for a
\* backend (the local prompt, the remote message sequence) holds none of
\* the entries older than the three most recent ones.
C22_OnlyLastThreeEntries ==
    Generated =>
        \A k \in 1..Len(lastOp.calls) :
            \A i \in 1..Len(History(lastOp.context)) :
                i <= Len(History(lastOp.context)) - 3 => ~EntryInRequest(i, k)

(***************************************************************************)
(* Properties of interleaved process_message calls (checked under          *)
(* SpecRace).                                                              *)
(***************************************************************************)
\* the prompt of coroutine c starts with the text its own reload read
PromptFromOwnReload(c) ==
    /\ Len(tasks.co[c].prompt) >= Len(tasks.co[c].read)
    /\ SubSeq(tasks.co[c].prompt, 1, Len(tasks.co[c].read)) = tasks.co[c].read

\* coroutine c returned an envelope whose instructions_version is not the
\* length of the text its own reload read
SawOtherText(c) ==
    /\ tasks.co[c].pc = "done"
    /\ "instructions_version" \in DOMAIN tasks.co[c].envelope.metadata
    /\ tasks.co[c].envelope.metadata.instructions_version # CharLen(tasks.co[c].read)

\* C24 (as stated): the instruction text a call observes that is not the
\* text its own reload read is the text its prompt is built from.
C24_TornTextIsInPrompt ==
    \A c \in Coroutines : SawOtherText(c) => ~PromptFromOwnReload(c)

\* C24 (amended): every call builds its prompt from the text its own
\* reload read; the text of another call's reload shows only in the
\* instructions_version of the envelope, read after the backend await.
C24_PromptFromOwnReload ==
    \A c \in Coroutines : tasks.co[c].pc # "idle" => PromptFromOwnReload(c)

C24_Witness ==
    \E c \in Coroutines :
        /\ SawOtherText(c) /\ PromptFromOwnReload(c)
        /\ tasks.co[c].envelope.metadata.instructions_version = CharLen(ruby.instructions)

(***************************************************************************)
(* Properties of interleaved initialize calls (checked under SpecStartup). *)
(***************************************************************************)
\* the TaskScheduler objects that were started
Started == {i \in 1..Len(tasks.schedulers) : tasks.schedulers[i] = "running"}

\* C28: when initialize calls interleave at their await points, at most one
\* TaskScheduler is ever started, and no started scheduler is left
\* unreferenced by the orchestrator.
C28_OneSchedulerStarted ==
    /\ Cardinality(Started) <= 1
    /\ \A i \in Started : i = tasks.task_scheduler

(***************************************************************************)
(* Properties of the capability map (checked under SpecCaps).              *)
(***************************************************************************)
\* C30: update_capability never alters the capability map the persona's
\* configuration holds, so after any sequence of update_capability calls a
\* reload_configuration leaves the persona with exactly the configured
\* capabilities.
C30_ReloadRestoresConfigured ==
    /\ ruby.configured = RubyConfig.capabilities
    /\ lastOp.op = "reload_configuration"
           => ruby.capabilities = RubyConfig.capabilities

(***************************************************************************)
(* Properties of the message path (checked under Spec).                    *)
(***************************************************************************)
Chatted == lastOp.op = "chat"

\* C5: every envelope returned by the persona and by the orchestrator
\* carries a non-empty message.
C5_EveryEnvelopeHasMessage ==
    Chatted =>
        /\ ~lastOp.raised => lastOp.envelope.message # <<>>
        /\ (lastOp.persona.called /\ ~lastOp.persona.raised)
               => lastOp.persona.envelope.message # <<>>

\* C6: when the Coordinator call raises inside the persona, nothing is
\* propagated and the envelope the orchestrator's caller gets is
\* error-flagged, with the generic apology and the error text in metadata.
C6_CoordinatorFailureIsErrorFlagged ==
    (Chatted /\ lastOp.persona.coordinatorRaised)
        => /\ ~lastOp.raised
           /\ ErrorFlag(lastOp.envelope)
           /\ lastOp.envelope.message = PersonaApology
           /\ "error" \in DOMAIN lastOp.envelope.metadata

InstructionsMissing ==
    Chatted /\ lastOp.persona.called
    /\ lastOp.persona.fileState \in {"missing", "unreadable"}

C8_UnknownPersonaRejected ==
    (Chatted /\ Lower(lastOp.name) \notin RegisteredPersonas
        /\ ~InSeq(Lower(lastOp.name), orch.assistants))
        => /\ ~lastOp.raised
           /\ ErrorFlag(lastOp.envelope)
           /\ \A k \in 1..Len(orch.assistants) :
                  Contains(lastOp.envelope.message, orch.assistants[k])
           /\ ~lastOp.persona.called
           /\ lastOp.calls = <<>>

\* C9: in every orchestrator state and for every failure below it,
\* process_message returns an envelope; no exception reaches the transport.
C9_NoRawException == Chatted => ~lastOp.raised

\* C10: every envelope process_message produces carries the fields the
\* response schema requires, so POST /chat answers it with status 200.
C10_EnvelopeSatisfiesSchema ==
    (Chatted /\ ~lastOp.raised)
        => /\ RequiredFields \subseteq DOMAIN lastOp.envelope
           /\ lastOp.status = 200

\* C23: after the reload of the instruction text in process_message the
\* persona's trait map is the result of parsing the loaded instruction
\* text (empty when the text has no personality/traits section).
C23_TraitsFollowInstructions ==
    (lastOp.op = "chat" /\ lastOp.persona.called)
        => ruby.personality_traits = ParsePersonality(ruby.instructions)

\* C11: once initialize has completed successfully, a further initialize
\* call (no shutdown in between) does nothing: it makes no constructor or
\* start call, does not raise, and leaves the services, the persona registry
\* and the persona as they were.
C11_SecondInitializeIsNoOp ==
    [][(lastOp'.op = "initialize" /\ orch.is_initialized)
          => /\ lastOp'.effects = <<>>
             /\ ~lastOp'.raised
             /\ orch' = orch
             /\ ruby' = ruby]_vars

C11_Witness ==
    /\ lastOp.op = "initialize" /\ lastOp.wasInitialized
    /\ orch.is_initialized /\ orch.task_scheduler = "running"
    /\ orch.ai_service.svc.available_local_models # <<>>
    /\ ruby.is_active

(***************************************************************************)
(* Properties of TaskScheduler (checked under SpecSched).                  *)
(***************************************************************************)
\* the introspection listing
Listing == GetScheduledTasks(sched).active_tasks

ScheduleOps ==
    {"schedule_cron_task", "schedule_interval_task", "schedule_one_time_task"}

\* C12: once cancel_task(X) has returned, X is absent from the
\* introspection listing, whenever the call is made, also after a one-time
\* job has fired (stated for a running scheduler).
C12_CancelRemovesFromListing ==
    (lastOp.op = "cancel_task" /\ sched.is_running)
        => ~HasKey(Listing, lastOp.task_id)

\* the trigger kind and parameters a listing entry shows
EntryTrigger(entry) ==
    [kind |-> entry.type,
     params |-> IF entry.type = "cron" THEN entry.expression
                ELSE IF entry.type = "interval" THEN entry.interval
                ELSE entry.run_date]

C26_ListingMatchesJobs ==
    /\ {Listing[i][1] : i \in 1..Len(Listing)}
           = {sched.jobs[i].id : i \in 1..Len(sched.jobs)}
    /\ GetScheduledTasks(sched).jobs_count = Len(Listing)

(***************************************************************************)
(* Properties of FileService (checked under SpecFS).                       *)
(***************************************************************************)
FileOps == {"organize_directory", "find_duplicates", "search_files"}

\* the directory of the last call lies in no allowed root, or file
\* operations are switched off
NotAllowed ==
    \/ ~lastOp.before.settings.allow_file_operations
    \/ \A allowed \in AllowedDirectories :
           ~IsRelativeTo(Resolve(lastOp.directory), allowed)

\* C14: for a directory outside every allowed root, or with file operations
\* disabled, each of the three operations answers success = false and
\* writes nothing: the directories and files are as before the call.
C14_NotAllowedTouchesNothing ==
    (lastOp.op \in FileOps /\ NotAllowed)
        => /\ ~lastOp.raised
           /\ lastOp.result.success = FALSE
           /\ lastOp.effects = <<>>
           /\ fs.dirs = lastOp.before.dirs
           /\ fs.files = lastOp.before.files

C14_Witness ==
    /\ lastOp.op = "organize_directory" /\ lastOp.directory = LinkOut
    /\ lastOp.before.settings.allow_file_operations
    /\ lastOp.before.settings.backup_before_organize
    /\ lastOp.result.success = FALSE
    /\ \E x \in fs.files : x.dir = Outside

\* the files with one content at or below a directory
Holding(f, directory, content) ==
    {x \in f.files : IsRelativeTo(x.dir, directory) /\ x.content = content}

Reported(result, text, name) ==
    \E i \in 1..Len(result.organized_files) :
        result.organized_files[i][2] = text /\ result.organized_files[i][3] = name

\* C15: when the directory holds two files of identical content, a
\* successful organize_directory retains one and removes the other as a
\* duplicate, and reports the removal (stated with duplicate checking
\* enabled, the default).
C15_IdenticalPairIsDeduplicated ==
    (lastOp.op = "organize_directory" /\ lastOp.result.success
        /\ lastOp.before.settings.duplicate_check_enabled)
        => \A x, y \in lastOp.before.files :
              (x # y /\ x.dir = lastOp.directory /\ y.dir = lastOp.directory
                  /\ x.content = y.content)
                  => /\ \/ Reported(lastOp.result, "Removed duplicate: ", x.name)
                        \/ Reported(lastOp.result, "Removed duplicate: ", y.name)
                     /\ Cardinality(Holding(fs, lastOp.directory, x.content))
                            < Cardinality(Holding(lastOp.before, lastOp.directory, x.content))

\* C16: for a path that does not exist or is not a directory, and for a
\* directory that is not allowed, each of the three operations returns a
\* result with success = false and an error text, and raises nothing.
C16_BadPathIsStructuredFailure ==
    (lastOp.op \in FileOps
        /\ (NotAllowed \/ ~IsDir(lastOp.before, lastOp.directory)))
        => /\ ~lastOp.raised
           /\ lastOp.result.success = FALSE
           /\ "error" \in DOMAIN lastOp.result

\* the path organize_directory first tries for a file of the directory
\* (lines 94-99)
TargetOf(directory, name, create_subdirs) ==
    IF create_subdirs THEN directory \o << <<GetFileCategory(name)>>, name >>
    ELSE Append(directory, <<GetFileCategory(name), "_">> \o name)

\* the files directly in the directory of the last call, before the call,
\* whose target path existed already
Colliding ==
    {x \in lastOp.before.files :
        /\ x.dir = Resolve(lastOp.directory)
        /\ Exists(lastOp.before,
                  TargetOf(lastOp.directory, x.name, lastOp.create_subdirs))}

\* C25: after a successful organize_directory no file whose target path
\* existed is still at its place in the source directory, whatever the
\* configuration flags: it was removed as a duplicate of an identical
\* target, or moved to a fresh name.
C25_CollidingFileIsNotLeft ==
    (lastOp.op = "organize_directory" /\ lastOp.result.success)
        => \A x \in Colliding :
              /\ ~IsFile(fs, FilePath(x))
              /\ \/ Reported(lastOp.result, "Removed duplicate: ", x.name)
                 \/ \E i \in 1..Len(lastOp.result.organized_files) :
                        /\ lastOp.result.organized_files[i][2] = "moved"
                        /\ IsFile(fs, lastOp.result.organized_files[i][3])
                        /\ FileAt(fs, lastOp.result.organized_files[i][3]).content
                               = x.content

\* C27: organize_directory loses no content: every content held below the
\* directory before the call is held below it afterwards, no path holds two
\* files or a content other than the one it held, and a file is unlinked
\* only while a file of its content is at its target path.
C27_NoContentLost ==
    lastOp.op = "organize_directory"
        => /\ \A x \in lastOp.before.files :
                  IsRelativeTo(x.dir, Resolve(lastOp.directory))
                      => Holding(fs, Resolve(lastOp.directory), x.content) # {}
           /\ \A y \in fs.files : \A x \in lastOp.before.files \cup fs.files :
                  FilePath(x) = FilePath(y) => x = y
           /\ \A i \in 1..Len(lastOp.effects) :
                  lastOp.effects[i].kind = "unlink"
                      => \E x \in Colliding :
                            /\ FilePath(x) = lastOp.effects[i].path
                            /\ \E y \in fs.files :
                                   /\ FilePath(y) = TargetOf(lastOp.directory, x.name,
                                                             lastOp.create_subdirs)
                                   /\ y.content = x.content

C27_Witness ==
    /\ lastOp.op = "organize_directory" /\ lastOp.result.success
    /\ \E i \in 1..Len(lastOp.effects) :
           /\ lastOp.effects[i].kind = "unlink"
           /\ ~IsFile(fs, lastOp.effects[i].path)
           /\ IsFile(lastOp.before, lastOp.effects[i].path)
           /\ Holding(fs, Resolve(lastOp.directory),
                      FileAt(lastOp.before, lastOp.effects[i].path).content) # {}

\* C29: every write of organize_directory (backup copy, category directory,
\* move, unlink) is to a path inside one of the allowed roots.
C29_WritesStayInAllowedRoots ==
    lastOp.op = "organize_directory"
        => \A i \in 1..Len(lastOp.effects) :
              \E allowed \in AllowedDirectories :
                  IsRelativeTo(lastOp.effects[i].path, allowed)

(***************************************************************************)
(* Properties of the WebSocket endpoint (checked under SpecWS).            *)
(***************************************************************************)
\* C17: on an open connection every {assistant, message} frame, also one
\* with an empty message text, is answered by an envelope, and the server
\* keeps the connection open.  Stated on the states in which the handler
\* has read every frame and awaits the next one: each frame sent has been
\* answered; and no exception has ended the handler.
C17_EveryFrameAnswered ==
    ws.wellformed
        => /\ ws.pc # "failed"
           /\ (ws.connected /\ ws.pc = "receive" /\ ws.inbox = <<>>)
                  => ws.answered = ws.sent

====
